---- MODULE Spec2Model ----
(***************************************************************************)
(* A model of the query dispatcher of An-Ai-Agent: the regex planner       *)
(* (agent/planner.py), the plan schema (agent/models.py), the five tools   *)
(* (agent/tools/*.py), the safe expression evaluator (agent/utils.py),     *)
(* the dispatcher (agent/agent.py) and the command line (main.py).         *)
(*                                                                         *)
(* Python strings are TLA+ strings; a character is a string of length 1.   *)
(* Every regular expression of the source is a matcher written out by      *)
(* hand with the search order of Python's re module (leftmost start,       *)
(* greedy or lazy quantifiers tried in their order).                       *)
(* A call's outcome is a record: [ok |-> TRUE, val |-> v] for a return,    *)
(* [ok |-> FALSE, exc |-> class, msg |-> str(e)] for a raised exception.   *)
(*                                                                         *)
(* The file system is the text of the file at each path a knowledge        *)
(* base is constructed with; no file exists at the start, so the tool      *)
(* starts from its default entries.  The directories of a path that has    *)
(* some are taken to be creatable and the file writable.                   *)
(*                                                                         *)
(* What the model leaves out: logging and the log_execution_time           *)
(* decorator; the rounding of doubles (a float is an exact rational, and   *)
(* the inputs are chosen so that Python computes the same digits);         *)
(* whitespace other than the space and the tab; JSON texts other than      *)
(* those json.dump writes for a knowledge base.  An enum member in an      *)
(* f-string is formatted as Python 3.11 and later do                       *)
(* ("ToolName.CALCULATOR").                                                *)
(***************************************************************************)
EXTENDS Integers, Sequences, FiniteSets, TLC

(***************************************************************************)
(* Characters and the str methods the source uses.                         *)
(***************************************************************************)
Ch(s, i) == SubSeq(s, i, i)

UpperChars == "ABCDEFGHIJKLMNOPQRSTUVWXYZ"
LowerChars == "abcdefghijklmnopqrstuvwxyz"
DigitChars == "0123456789"

CharsOf(s) == {Ch(s, i) : i \in 1..Len(s)}

UpperSet == CharsOf(UpperChars)
LowerSet == CharsOf(LowerChars)
DigitSet == CharsOf(DigitChars)
AlphaSet == UpperSet \cup LowerSet
\* \w of the re module on ASCII text
WordSet == AlphaSet \cup DigitSet \cup {"_"}
\* \s of the re module, and what str.strip() removes
SpaceSet == {" ", "\t"}
\* [a-zA-Z\s]
AlphaSpaceSet == AlphaSet \cup SpaceSet

LowerOf == [c \in UpperSet |->
              Ch(LowerChars, CHOOSE i \in 1..26 : Ch(UpperChars, i) = c)]
UpperOf == [c \in LowerSet |->
              Ch(UpperChars, CHOOSE i \in 1..26 : Ch(LowerChars, i) = c)]

LowerChar(c) == IF c \in UpperSet THEN LowerOf[c] ELSE c
UpperChar(c) == IF c \in LowerSet THEN UpperOf[c] ELSE c

RECURSIVE LowerFrom(_, _)
LowerFrom(s, i) ==
    IF i > Len(s) THEN "" ELSE LowerChar(Ch(s, i)) \o LowerFrom(s, i + 1)

\* str.lower()
lower(s) == LowerFrom(s, 1)

RECURSIVE FirstNonSpace(_, _)
FirstNonSpace(s, i) ==
    IF i > Len(s) \/ Ch(s, i) \notin SpaceSet THEN i ELSE FirstNonSpace(s, i + 1)

RECURSIVE LastNonSpace(_, _)
LastNonSpace(s, j) ==
    IF j < 1 \/ Ch(s, j) \notin SpaceSet THEN j ELSE LastNonSpace(s, j - 1)

\* str.strip()
strip(s) ==
    LET a == FirstNonSpace(s, 1)
        b == LastNonSpace(s, Len(s))
    IN  IF a > b THEN "" ELSE SubSeq(s, a, b)

RECURSIVE TitleFrom(_, _, _)
TitleFrom(s, i, prevCased) ==
    IF i > Len(s) THEN ""
    ELSE LET c == Ch(s, i)
         IN  (IF prevCased THEN LowerChar(c) ELSE UpperChar(c))
               \o TitleFrom(s, i + 1, c \in AlphaSet)

\* str.title(): a letter after a non-letter is uppercased, any other lowercased
title(s) == TitleFrom(s, 1, FALSE)

\* lit occurs in s at position i
LitAt(s, i, lit) ==
    /\ i >= 1
    /\ i + Len(lit) - 1 <= Len(s)
    /\ SubSeq(s, i, i + Len(lit) - 1) = lit

\* Python's `lit in s`
Contains(s, lit) == \E i \in 1..(Len(s) - Len(lit) + 1) : LitAt(s, i, lit)

\* str.startswith
startswith(s, lit) == LitAt(s, 1, lit)

\* the position after the longest run of characters of class cls starting at i
RECURSIVE RunEnd(_, _, _)
RunEnd(s, i, cls) ==
    IF i <= Len(s) /\ Ch(s, i) \in cls THEN RunEnd(s, i + 1, cls) ELSE i

\* the least element of a non-empty set of integers
Least(S) == CHOOSE x \in S : \A y \in S : x <= y

\* str.replace(old, new), left to right, non-overlapping
RECURSIVE ReplaceFrom(_, _, _, _)
ReplaceFrom(s, i, old, new) ==
    LET S == {k \in i..Len(s) : LitAt(s, k, old)}
    IN  IF S = {} THEN SubSeq(s, i, Len(s))
        ELSE SubSeq(s, i, Least(S) - 1) \o new
                 \o ReplaceFrom(s, Least(S) + Len(old), old, new)

replace(s, old, new) == ReplaceFrom(s, 1, old, new)

(***************************************************************************)
(* Outcomes of calls.                                                      *)
(***************************************************************************)
Return(v) == [ok |-> TRUE, val |-> v]
Raise(cls, m) == [ok |-> FALSE, exc |-> cls, msg |-> m]

\* the statements that follow the assignment of v to a local variable
Let(v, Body(_)) == Body(v)

\* the statements that follow a call: they run on the value it returned, and
\* its exception propagates
Then(outcome, Body(_)) == IF outcome.ok THEN Body(outcome.val) ELSE outcome

\* except Exception as e: raise cls(prefix + str(e))
Reraise(outcome, cls, prefix) ==
    IF outcome.ok THEN outcome ELSE Raise(cls, prefix \o outcome.msg)

\* a regex match object (the groups are strings), or None
NoMatch == [matched |-> FALSE, groups |-> <<>>]
Match(gs) == [matched |-> TRUE, groups |-> gs]

\* if match: Body on the groups; else: other
IfMatch(m, Body(_), other) == IF m.matched THEN Body(m.groups) ELSE other

(***************************************************************************)
(* The regular expressions of the planner (QueryPlanner._init_patterns     *)
(* and the inline patterns of _plan_translation).                          *)
(***************************************************************************)
QuoteSet == {"\"", "'"}

\* \d+(?:\.\d+)? at i: the position after it, or 0. What follows it in each
\* pattern (%, \s+, the end) accepts after no shorter choice than the greedy one.
NumEnd(s, i) ==
    IF i >= 1 /\ i <= Len(s) /\ Ch(s, i) \in DigitSet
    THEN LET e == RunEnd(s, i, DigitSet)
         IN  IF e + 1 <= Len(s) /\ Ch(s, e) = "." /\ Ch(s, e + 1) \in DigitSet
             THEN RunEnd(s, e + 1, DigitSet)
             ELSE e
    ELSE 0

\* the leftmost start at which MatchAt succeeds: re.search
FirstStart(s, Ok(_, _)) ==
    LET S == {i \in 1..Len(s) : Ok(s, i)}
    IN  IF S = {} THEN 0 ELSE Least(S)

\* pattern.search(s), the pattern matched at a position by MatchAt
Search(s, MatchAt(_, _)) ==
    LET S == {i \in 1..Len(s) : MatchAt(s, i).matched}
    IN  IF S = {} THEN NoMatch ELSE MatchAt(s, Least(S))

\* \d+(?:\.\d+)?%\s+of\s+\d+(?:\.\d+)? at i: the two numbers
PercentageMatchAt(s, i) ==
    LET e1 == NumEnd(s, i)
        e2 == RunEnd(s, e1 + 1, SpaceSet)
        e3 == RunEnd(s, e2 + 2, SpaceSet)
    IN  IF /\ e1 # 0
           /\ LitAt(s, e1, "%")
           /\ e2 > e1 + 1
           /\ LitAt(s, e2, "of")
           /\ e3 > e2 + 2
           /\ NumEnd(s, e3) # 0
        THEN Match(<<SubSeq(s, i, e1 - 1), SubSeq(s, e3, NumEnd(s, e3) - 1)>>)
        ELSE NoMatch

\* 'percentage': \d+(?:\.\d+)?%\s+of\s+\d+(?:\.\d+)?
pattern_percentage(s) == Search(s, PercentageMatchAt).matched

\* 'math_operations': (?:add|subtract|multiply|divide|\+|\-|\*|\/|\d)
MathOperationTokens == {"add", "subtract", "multiply", "divide", "+", "-", "*", "/"}

pattern_math_operations(s) ==
    \/ \E w \in MathOperationTokens : Contains(s, w)
    \/ \E i \in 1..Len(s) : Ch(s, i) \in DigitSet

\* 'weather': weather|temperature|temp
pattern_weather(s) ==
    Contains(s, "weather") \/ Contains(s, "temperature") \/ Contains(s, "temp")

\* (?:\s|$|\?|,) at j
CityTerminatorAt(s, j) == j > Len(s) \/ Ch(s, j) \in SpaceSet \cup {"?", ","}

\* ([a-zA-Z\s]+?)(?:\s|$|\?|,) with the group starting at g: the lazy group's
\* last position, or 0
CityGroupEnd(s, g) ==
    LET r == RunEnd(s, g, AlphaSpaceSet)
        E == {e \in g..(r - 1) : CityTerminatorAt(s, e + 1)}
    IN  IF E = {} THEN 0 ELSE Least(E)

\* in\s+ at i followed by the group: \s+ is greedy, so the group's start is the
\* latest one after which the group matches
CityGroupStart(s, i) ==
    LET p == RunEnd(s, i + 2, SpaceSet)
        G == {g \in (i + 3)..p : CityGroupEnd(s, g) # 0}
    IN  IF LitAt(s, i, "in") /\ G # {}
        THEN CHOOSE g \in G : \A h \in G : h <= g
        ELSE 0

CityAt(s, i) == CityGroupStart(s, i) # 0

\* 'city_extraction': in\s+([a-zA-Z\s]+?)(?:\s|$|\?|,)
pattern_city_extraction(s) ==
    LET i == FirstStart(s, CityAt)
        g == CityGroupStart(s, i)
    IN  IF i = 0 THEN NoMatch
        ELSE Match(<<SubSeq(s, g, CityGroupEnd(s, g))>>)

\* \s+(\w+) at p: <<start of the word, position after it>>, or <<0, 0>>
SpaceWordAt(s, p) ==
    LET a == RunEnd(s, p, SpaceSet)
        b == RunEnd(s, a, WordSet)
    IN  IF p >= 1 /\ a > p /\ b > a THEN <<a, b>> ELSE <<0, 0>>

\* \s+to\s+(\w+) at p
SpaceToWordAt(s, p) ==
    LET a == RunEnd(s, p, SpaceSet)
    IN  IF p >= 1 /\ a > p /\ LitAt(s, a, "to") THEN SpaceWordAt(s, a + 2)
        ELSE <<0, 0>>

\* (\d+(?:\.\d+)?)\s+(\w+)\s+to\s+(\w+) with the number at n: the three groups
NumberUnitToUnitAt(s, n) ==
    LET e  == NumEnd(s, n)
        w1 == SpaceWordAt(s, e)
        w2 == SpaceToWordAt(s, w1[2])
    IN  IF e # 0 /\ w1[1] # 0 /\ w2[1] # 0
        THEN Match(<<SubSeq(s, n, e - 1), SubSeq(s, w1[1], w1[2] - 1),
                     SubSeq(s, w2[1], w2[2] - 1)>>)
        ELSE NoMatch

ConversionMatchAt(s, i) ==
    LET p == RunEnd(s, i + 7, SpaceSet)
    IN  IF LitAt(s, i, "convert") /\ p > i + 7 THEN NumberUnitToUnitAt(s, p)
        ELSE NoMatch

\* 'conversion': convert\s+(\d+(?:\.\d+)?)\s+(\w+)\s+to\s+(\w+)
pattern_conversion(s) == Search(s, ConversionMatchAt)

\* from\s+(\w+)\s+to\s+(\w+) at f: the two words
FromToAt(s, f) ==
    LET w1 == SpaceWordAt(s, f + 4)
        w2 == SpaceToWordAt(s, w1[2])
    IN  IF LitAt(s, f, "from") /\ w1[1] # 0 /\ w2[1] # 0
        THEN Match(<<SubSeq(s, w1[1], w1[2] - 1), SubSeq(s, w2[1], w2[2] - 1)>>)
        ELSE NoMatch

\* to\s+(\w+) at t: the word
ToAt(s, t) ==
    LET w == SpaceWordAt(s, t + 2)
    IN  IF LitAt(s, t, "to") /\ w[1] # 0
        THEN Match(<<SubSeq(s, w[1], w[2] - 1)>>)
        ELSE NoMatch

\* translate\s+["\'] at i: the position after the opening quote, or 0
TranslateQuoteAt(s, i) ==
    LET p == RunEnd(s, i + 9, SpaceSet)
    IN  IF LitAt(s, i, "translate") /\ p > i + 9 /\ p <= Len(s)
           /\ Ch(s, p) \in QuoteSet
        THEN p + 1 ELSE 0

\* translate\s+["\'](.+?)["\'].*?TAIL at i, where TAIL is matched by Rest(s, _):
\* the lazy text ends before the first quote after which some TAIL matches,
\* and .*? stops at the first such TAIL
QuotedMatchAt(s, i, Rest(_, _)) ==
    LET a == TranslateQuoteAt(s, i)
        Q == {q \in (a + 1)..Len(s) :
                /\ Ch(s, q) \in QuoteSet
                /\ \E f \in (q + 1)..Len(s) : Rest(s, f).matched}
        q == Least(Q)
        f == Least({g \in (q + 1)..Len(s) : Rest(s, g).matched})
    IN  IF a = 0 \/ Q = {} THEN NoMatch
        ELSE Match(<<SubSeq(s, a, q - 1)>> \o Rest(s, f).groups)

TranslationMatchAt(s, i) == QuotedMatchAt(s, i, FromToAt)

\* 'translation': translate\s+["\'](.+?)["\'].*?from\s+(\w+)\s+to\s+(\w+)
pattern_translation(s) == Search(s, TranslationMatchAt)

UnquotedMatchAt(s, i) ==
    LET w == SpaceWordAt(s, i + 9)
        a == RunEnd(s, w[2], SpaceSet)
        m == FromToAt(s, a)
    IN  IF LitAt(s, i, "translate") /\ w[1] # 0 /\ a > w[2] /\ m.matched
        THEN Match(<<SubSeq(s, w[1], w[2] - 1)>> \o m.groups)
        ELSE NoMatch

\* translate\s+(\w+)\s+from\s+(\w+)\s+to\s+(\w+)
unquoted_pattern(s) == Search(s, UnquotedMatchAt)

SimpleTranslateMatchAt(s, i) == QuotedMatchAt(s, i, ToAt)

\* translate\s+["\'](.+?)["\'].*?to\s+(\w+)
simple_translate(s) == Search(s, SimpleTranslateMatchAt)

SimpleUnquotedMatchAt(s, i) ==
    LET w == SpaceWordAt(s, i + 9)
        v == SpaceToWordAt(s, w[2])
    IN  IF LitAt(s, i, "translate") /\ w[1] # 0 /\ v[1] # 0
        THEN Match(<<SubSeq(s, w[1], w[2] - 1), SubSeq(s, v[1], v[2] - 1)>>)
        ELSE NoMatch

\* translate\s+(\w+)\s+to\s+(\w+)
simple_unquoted(s) == Search(s, SimpleUnquotedMatchAt)

\* who\s+is\s+(.+?)(?:\?|$) at i, ignoring case: the group. The second \s+ is
\* greedy and gives a character back only when nothing follows it.
WhoIsMatchAt(s, i) ==
    LET l  == lower(s)
        p1 == RunEnd(s, i + 3, SpaceSet)
        p2 == RunEnd(s, p1 + 2, SpaceSet)
        E  == {e \in p2..Len(s) : e = Len(s) \/ Ch(s, e + 1) = "?"}
    IN  IF LitAt(l, i, "who") /\ p1 > i + 3 /\ LitAt(l, p1, "is") /\ p2 > p1 + 2
        THEN IF p2 <= Len(s) THEN Match(<<SubSeq(s, p2, Least(E))>>)
             ELSE IF p2 - (p1 + 2) >= 2 THEN Match(<<Ch(s, Len(s))>>)
             ELSE NoMatch
        ELSE NoMatch

\* 'who_is': who\s+is\s+(.+?)(?:\?|$), re.IGNORECASE
pattern_who_is(s) == Search(s, WhoIsMatchAt)

(***************************************************************************)
(* Python numbers.  An int is [t |-> "int", n, d |-> 1]; a float is the    *)
(* exact rational n/d in lowest terms with d > 0 (the double's rounding is *)
(* not modelled: the model's inputs are chosen so that no operation        *)
(* rounds); bool, str and None are the other values a literal can have.    *)
(***************************************************************************)
Abs(n) == IF n < 0 THEN -n ELSE n

RECURSIVE GCD(_, _)
GCD(a, b) == IF b = 0 THEN a ELSE GCD(b, a % b)

PyInt(n) == [t |-> "int", n |-> n, d |-> 1]

\* the float n/d, d # 0
PyFloat(n, d) ==
    LET g == GCD(Abs(n), Abs(d))
        sgn == IF d < 0 THEN -1 ELSE 1
    IN  [t |-> "float", n |-> sgn * (n \div g), d |-> sgn * (d \div g)]

PyBool(b) == [t |-> "bool", n |-> IF b THEN 1 ELSE 0, d |-> 1]
PyStr(s) == [t |-> "str", s |-> s]
\* Python's None
None == [t |-> "NoneType"]
IsNone(v) == "t" \in DOMAIN v /\ v.t = "NoneType"

IsNumber(v) == v.t \in {"int", "float", "bool"}
\* whether the arithmetic of two numbers is float arithmetic
IsFloaty(a, b) == a.t = "float" \/ b.t = "float"

Num(isFloat, n, d) == IF isFloat THEN PyFloat(n, d) ELSE PyInt(n)

RECURSIVE Power(_, _)
Power(b, e) == IF e = 0 THEN 1 ELSE b * Power(b, e - 1)

\* the decimal digits of a natural number
RECURSIVE NatStr(_)
NatStr(n) ==
    IF n < 10 THEN Ch(DigitChars, n + 1)
    ELSE NatStr(n \div 10) \o Ch(DigitChars, (n % 10) + 1)

\* str(n) of an int
IntStr(n) == IF n < 0 THEN "-" \o NatStr(-n) ELSE NatStr(n)

\* the most digits repr gives the fraction of a float in the model
MaxFractionDigits == 16

\* the digits of r/d after the decimal point (r < d), at most k of them
RECURSIVE FractionStr(_, _, _)
FractionStr(r, d, k) ==
    IF r = 0 \/ k = 0 THEN ""
    ELSE Ch(DigitChars, ((r * 10) \div d) + 1)
           \o FractionStr((r * 10) % d, d, k - 1)

\* repr of the float n/d: always with a decimal point
FloatStr(n, d) ==
    LET a == Abs(n)
        frac == FractionStr(a % d, d, MaxFractionDigits)
    IN  (IF n < 0 THEN "-" ELSE "") \o NatStr(a \div d) \o "."
          \o (IF frac = "" THEN "0" ELSE frac)

\* str(v) of a value
str(v) ==
    CASE v.t = "int" -> IntStr(v.n)
      [] v.t = "float" -> FloatStr(v.n, v.d)
      [] v.t = "bool" -> IF v.n = 1 THEN "True" ELSE "False"
      [] v.t = "str" -> v.s
      [] v.t = "NoneType" -> "None"

\* the value of a string of digits
RECURSIVE DigitsValue(_, _)
DigitsValue(s, acc) ==
    IF s = "" THEN acc
    ELSE DigitsValue(SubSeq(s, 2, Len(s)),
                     acc * 10 + ((CHOOSE k \in 1..10 : Ch(DigitChars, k) = Ch(s, 1)) - 1))

(***************************************************************************)
(* agent/models.py: ToolName and ToolPlan.                                 *)
(***************************************************************************)
CALCULATOR == "calculator"
WEATHER == "weather"
KNOWLEDGE_BASE == "kb"
UNIT_CONVERTER == "unitconv"
TRANSLATOR == "translator"

ToolName == {CALCULATOR, WEATHER, KNOWLEDGE_BASE, UNIT_CONVERTER, TRANSLATOR}

\* ToolPlan.validate_args: the keys each tool's plan must carry, in order
required_args ==
    [t \in ToolName |->
        CASE t = CALCULATOR -> <<"expr">>
          [] t = WEATHER -> <<"city">>
          [] t = KNOWLEDGE_BASE -> <<"query">>
          [] t = UNIT_CONVERTER -> <<"query">>
          [] t = TRANSLATOR -> <<"text", "from_lang", "to_lang">>]

\* a ToolPlan built without its validator
ToolPlanUnvalidated(tool, args) == Return([tool |-> tool, args |-> args])

\* ToolPlan(tool=tool, args=args): the validator runs at construction and its
\* ValueError (the first missing key) fails the construction
ToolPlan(tool, args) ==
    LET need == required_args[tool]
        missing == {k \in 1..Len(need) : need[k] \notin DOMAIN args}
    IN  IF tool \in ToolName /\ missing # {}
        THEN Raise("ValidationError",
                   "Tool '" \o tool \o "' requires argument '"
                     \o need[Least(missing)] \o "'")
        ELSE Return([tool |-> tool, args |-> args])

(***************************************************************************)
(* agent/utils.py: normalize_text.  agent/planner.py: the five stages.     *)
(***************************************************************************)
normalize_text(text) == lower(strip(text))

CalculationTokens ==
    {"%", "+", "-", "*", "/", "add", "subtract", "multiply", "divide", "average"}

_plan_calculation(normalized_query, original_query) ==
    IF pattern_percentage(normalized_query)
    THEN ToolPlan(CALCULATOR, [expr |-> PyStr(original_query)])
    ELSE IF /\ \E op \in CalculationTokens : Contains(normalized_query, op)
            /\ pattern_math_operations(normalized_query)
    THEN ToolPlan(CALCULATOR, [expr |-> PyStr(original_query)])
    ELSE Return(None)

ConversionUnitTokens == {"usd", "eur", "celsius", "fahrenheit", "c", "f"}

\* _plan_unit_conversion with the names of units only in its list, without
\* the letters c and f
_plan_unit_conversionNamedUnits(normalized_query, original_query) ==
    IF pattern_conversion(normalized_query).matched
    THEN ToolPlan(UNIT_CONVERTER, [query |-> PyStr(original_query)])
    ELSE IF /\ startswith(normalized_query, "convert")
            /\ \E unit \in ConversionUnitTokens \ {"c", "f"} :
                   Contains(normalized_query, unit)
    THEN ToolPlan(UNIT_CONVERTER, [query |-> PyStr(original_query)])
    ELSE Return(None)

_plan_unit_conversion(normalized_query, original_query) ==
    IF pattern_conversion(normalized_query).matched
    THEN ToolPlan(UNIT_CONVERTER, [query |-> PyStr(original_query)])
    ELSE IF /\ startswith(normalized_query, "convert")
            /\ \E unit \in ConversionUnitTokens : Contains(normalized_query, unit)
    THEN ToolPlan(UNIT_CONVERTER, [query |-> PyStr(original_query)])
    ELSE Return(None)

TranslationArgs(text, from_lang, to_lang) ==
    [text |-> PyStr(text), from_lang |-> PyStr(lower(from_lang)),
     to_lang |-> PyStr(lower(to_lang))]

_plan_translation(normalized_query, original_query) ==
    IfMatch(pattern_translation(normalized_query),
            LAMBDA g : ToolPlan(TRANSLATOR, TranslationArgs(g[1], g[2], g[3])),
    IfMatch(unquoted_pattern(normalized_query),
            LAMBDA g : ToolPlan(TRANSLATOR, TranslationArgs(g[1], g[2], g[3])),
    IfMatch(simple_translate(normalized_query),
            LAMBDA g : ToolPlan(TRANSLATOR, TranslationArgs(g[1], "english", g[2])),
    IfMatch(simple_unquoted(normalized_query),
            LAMBDA g : ToolPlan(TRANSLATOR, TranslationArgs(g[1], "english", g[2])),
            Return(None)))))

_plan_weather(normalized_query, original_query) ==
    IF pattern_weather(normalized_query) \/ Contains(normalized_query, "summarize")
    THEN Let(IfMatch(pattern_city_extraction(normalized_query),
                     LAMBDA g : title(strip(g[1])), "Paris"),
             LAMBDA city : ToolPlan(WEATHER, [city |-> PyStr(city),
                                              query |-> PyStr(original_query)]))
    ELSE Return(None)

KnowledgeKeywords == {"who", "what", "when", "where", "how"}

_plan_knowledge_base(normalized_query, original_query) ==
    IfMatch(pattern_who_is(original_query),
            LAMBDA g : ToolPlan(KNOWLEDGE_BASE, [query |-> PyStr(strip(g[1]))]),
            IF \E keyword \in KnowledgeKeywords : Contains(normalized_query, keyword)
            THEN ToolPlan(KNOWLEDGE_BASE, [query |-> PyStr(original_query)])
            ELSE Return(None))

\* planners with the weather stage moved to the front
plannersWeatherFirst ==
    <<"_plan_weather", "_plan_calculation", "_plan_unit_conversion",
      "_plan_translation", "_plan_knowledge_base">>

\* the list `planners` of QueryPlanner.plan, in the order the loop tries it
planners ==
    <<"_plan_calculation", "_plan_unit_conversion", "_plan_translation",
      "_plan_weather", "_plan_knowledge_base">>

\* planner(normalized_query, original_query) for the planner of that name
CallPlanner(name, normalized_query, original_query) ==
    CASE name = "_plan_calculation" ->
           _plan_calculation(normalized_query, original_query)
      [] name = "_plan_unit_conversion" ->
           _plan_unit_conversion(normalized_query, original_query)
      [] name = "_plan_translation" ->
           _plan_translation(normalized_query, original_query)
      [] name = "_plan_weather" ->
           _plan_weather(normalized_query, original_query)
      [] name = "_plan_knowledge_base" ->
           _plan_knowledge_base(normalized_query, original_query)

\* the keys of the dict _init_patterns returns
PatternKeys ==
    {"percentage", "math_operations", "weather", "city_extraction", "conversion",
     "translation", "who_is"}

\* the first key the planner of that name looks up in self.patterns without
\* finding it, when the dict holds the keys pats; "" when it finds each key
\* it looks up
MissingPattern(pats, name, normalized_query) ==
    CASE name = "_plan_calculation" ->
           IF "percentage" \notin pats THEN "percentage"
           ELSE IF /\ "math_operations" \notin pats
                   /\ ~pattern_percentage(normalized_query)
                   /\ \E op \in CalculationTokens : Contains(normalized_query, op)
           THEN "math_operations"
           ELSE ""
      [] name = "_plan_unit_conversion" ->
           IF "conversion" \notin pats THEN "conversion" ELSE ""
      [] name = "_plan_translation" ->
           IF "translation" \notin pats THEN "translation" ELSE ""
      [] name = "_plan_weather" ->
           IF "weather" \notin pats THEN "weather"
           ELSE IF /\ "city_extraction" \notin pats
                   /\ \/ pattern_weather(normalized_query)
                      \/ Contains(normalized_query, "summarize")
           THEN "city_extraction"
           ELSE ""
      [] name = "_plan_knowledge_base" ->
           IF "who_is" \notin pats THEN "who_is" ELSE ""

\* planner(normalized_query, original_query) in the loop of plan, with the
\* KeyError of self.patterns[key] for a key the dict does not hold
CallStage(pats, name, normalized_query, original_query) ==
    IF MissingPattern(pats, name, normalized_query) # ""
    THEN Raise("KeyError", "'" \o MissingPattern(pats, name, normalized_query) \o "'")
    ELSE CallPlanner(name, normalized_query, original_query)

\* FallbackPlan with the query under a key the knowledge base does not take
FallbackPlanWrongKey(original_query) ==
    ToolPlan(KNOWLEDGE_BASE, [text |-> PyStr(original_query)])

\* the plan QueryPlanner.plan builds after its loop
FallbackPlan(original_query) == ToolPlan(KNOWLEDGE_BASE, [query |-> PyStr(original_query)])

(***************************************************************************)
(* ast.parse(text, mode="eval").body for the expressions of the model:     *)
(* numeric literals \d+, \d+.\d*, .\d+; string literals without escapes;   *)
(* names; True, False, None; the unary and binary operators; comparisons;  *)
(* calls, attributes, tuples and parentheses.  Exponent, imaginary, radix  *)
(* and underscore literals, string prefixes and brackets are no part of    *)
(* the model's inputs.  A keyword in a place of a name is a SyntaxError    *)
(* here (Python builds BoolOp, IfExp, ... for some, which _eval_node       *)
(* rejects with the same exception class).  Every SyntaxError has the one  *)
(* message SyntaxErrorText.                                                *)
(***************************************************************************)
SyntaxErrorText == "invalid syntax (<unknown>, line 1)"

Token(k, s) == [k |-> k, s |-> s]

TwoCharOps == {"**", "//", "<<", ">>", "<=", ">=", "==", "!="}
OneCharOps == {"+", "-", "*", "/", "%", "(", ")", ",", ".", "<", ">", "&", "|",
               "^", "~", "@", "="}

Keywords == {"and", "or", "not", "if", "else", "in", "is", "lambda", "for",
             "from", "as", "with", "while", "def", "class", "return", "import",
             "try", "pass", "del", "global", "yield", "await", "async", "elif",
             "except", "finally", "raise", "assert", "break", "continue",
             "nonlocal"}

\* a decimal integer literal may not start with 0 unless it is all zeros
BadLeadingZero(s) ==
    /\ Len(s) > 1
    /\ Ch(s, 1) = "0"
    /\ \E i \in 1..Len(s) : Ch(s, i) # "0"

\* the token starting at i (not a space): <<token, position after it>>
TokenAt(s, i) ==
    LET c == Ch(s, i)
        c2 == IF i < Len(s) THEN SubSeq(s, i, i + 1) ELSE ""
    IN  IF c \in DigitSet \/ (c = "." /\ i < Len(s) /\ Ch(s, i + 1) \in DigitSet)
        THEN LET e1 == RunEnd(s, i, DigitSet)
                 isFloat == LitAt(s, e1, ".")
                 e2 == IF isFloat THEN RunEnd(s, e1 + 1, DigitSet) ELSE e1
                 glued == e2 <= Len(s) /\ Ch(s, e2) \in AlphaSet \cup {"_"}
                 text == SubSeq(s, i, e2 - 1)
             IN  IF glued \/ (~isFloat /\ BadLeadingZero(text))
                 THEN <<Token("err", text), e2>>
                 ELSE <<Token(IF isFloat THEN "float" ELSE "int", text), e2>>
        ELSE IF c \in AlphaSet \cup {"_"}
        THEN LET e == RunEnd(s, i, WordSet)
             IN  <<Token("name", SubSeq(s, i, e - 1)), e>>
        ELSE IF c \in QuoteSet
        THEN LET Q == {q \in (i + 1)..Len(s) : Ch(s, q) = c}
             IN  IF Q = {} THEN <<Token("err", c), Len(s) + 1>>
                 ELSE <<Token("str", SubSeq(s, i + 1, Least(Q) - 1)), Least(Q) + 1>>
        ELSE IF c2 \in TwoCharOps THEN <<Token("op", c2), i + 2>>
        ELSE IF c \in OneCharOps THEN <<Token("op", c), i + 1>>
        ELSE <<Token("err", c), i + 1>>

\* the tokens of s from i on; a # starts a comment
RECURSIVE Tokenize(_, _)
Tokenize(s, i) ==
    IF i > Len(s) \/ Ch(s, i) = "#" THEN <<>>
    ELSE IF Ch(s, i) \in SpaceSet THEN Tokenize(s, i + 1)
    ELSE LET ta == TokenAt(s, i)
         IN  <<ta[1]>> \o Tokenize(s, ta[2])

\* syntax tree nodes
Constant(v) == [node |-> "Constant", value |-> v]
BinOp(op, left, right) == [node |-> "BinOp", op |-> op, left |-> left, right |-> right]
UnaryOp(op, operand) == [node |-> "UnaryOp", op |-> op, operand |-> operand]
Name(id) == [node |-> "Name", id |-> id]
Call(func, args) == [node |-> "Call", func |-> func, args |-> args]
Attribute(value, attr) == [node |-> "Attribute", value |-> value, attr |-> attr]
Compare(left, ops, comparators) ==
    [node |-> "Compare", left |-> left, ops |-> ops, comparators |-> comparators]
Tuple(elts) == [node |-> "Tuple", elts |-> elts]

\* a parse: the node and the position of the next token, or a failure
Parsed(n, pos) == [ok |-> TRUE, node |-> n, pos |-> pos]
ParseFail == [ok |-> FALSE, node |-> Name(""), pos |-> 0]

\* the levels with sum and difference binding tighter than product, quotient
\* and remainder
LevelOpsSumTightest ==
    << [sym |-> <<"|">>, op |-> <<"BitOr">>],
       [sym |-> <<"^">>, op |-> <<"BitXor">>],
       [sym |-> <<"&">>, op |-> <<"BitAnd">>],
       [sym |-> <<"<<", ">>">>, op |-> <<"LShift", "RShift">>],
       [sym |-> <<"*", "/", "//", "%", "@">>,
        op |-> <<"Mult", "Div", "FloorDiv", "Mod", "MatMult">>],
       [sym |-> <<"+", "-">>, op |-> <<"Add", "Sub">>] >>

\* the left-associative binary levels, loosest first, and the operator classes
LevelOps ==
    << [sym |-> <<"|">>, op |-> <<"BitOr">>],
       [sym |-> <<"^">>, op |-> <<"BitXor">>],
       [sym |-> <<"&">>, op |-> <<"BitAnd">>],
       [sym |-> <<"<<", ">>">>, op |-> <<"LShift", "RShift">>],
       [sym |-> <<"+", "-">>, op |-> <<"Add", "Sub">>],
       [sym |-> <<"*", "/", "//", "%", "@">>,
        op |-> <<"Mult", "Div", "FloorDiv", "Mod", "MatMult">>] >>

UnarySyms == <<"+", "-", "~">>
UnaryOps == <<"UAdd", "USub", "Invert">>
CompareSyms == <<"<", ">", "<=", ">=", "==", "!=">>
CompareOps == <<"Lt", "Gt", "LtE", "GtE", "Eq", "NotEq">>

\* the index of x in the sequence q, or 0
IndexOf(q, x) ==
    IF \E k \in 1..Len(q) : q[k] = x THEN CHOOSE k \in 1..Len(q) : q[k] = x ELSE 0

IsOp(toks, pos, sym) == pos <= Len(toks) /\ toks[pos] = Token("op", sym)
\* the index of the operator at pos among syms, or 0
OpIn(toks, pos, syms) ==
    IF pos <= Len(toks) /\ toks[pos].k = "op" THEN IndexOf(syms, toks[pos].s) ELSE 0

\* the literal's value
IntValue(text) == PyInt(DigitsValue(text, 0))
FloatValue(text) ==
    LET e == RunEnd(text, 1, DigitSet)
        fracText == SubSeq(text, e + 1, Len(text))
    IN  PyFloat(DigitsValue(SubSeq(text, 1, e - 1), 0) * Power(10, Len(fracText))
                  + DigitsValue(fracText, 0),
                Power(10, Len(fracText)))

\* the binary operator at pos whose level is at least min: its level and its
\* index in the level, or <<0, 0>>
BinaryAt(toks, pos, min) ==
    LET L == {l \in min..Len(LevelOps) : OpIn(toks, pos, LevelOps[l].sym) # 0}
    IN  IF L = {} THEN <<0, 0>>
        ELSE <<Least(L), OpIn(toks, pos, LevelOps[Least(L)].sym)>>

\* The recursive descent over the tokens from pos on.  rule names the rule
\* of the grammar, a carries what the rule has collected so far:
\*   "list"      expr (, expr)* [,] up to a closing parenthesis or the end;
\*               a tuple when commas occur (a.acc: the nodes so far)
\*   "compare"   what follows the first operand a.left of a chain of
\*               comparisons (a.ops, a.comparators: the chain so far)
\*   "binary"    an operand, then "binary_rest"
\*   "binary_rest"  what follows the operand a.left: the binary operators of
\*               the levels from a.min on, each with a right operand of the
\*               tighter levels, left-associative
\*   "factor"    a unary operator on a factor, or primary [** factor]: **
\*               binds tighter than a unary operator on its left, looser on
\*               its right
\*   "trailers"  .name and (arguments) after the primary a.left
\*   "atom"      a literal, a name, a parenthesised list
\*   "strings"   adjacent string literals, concatenated (a.acc: the text)
RECURSIVE Parse(_, _, _, _)
Parse(rule, toks, pos, a) ==
    CASE rule = "list" ->
           LET first == Parse("binary", toks, pos, [min |-> 1])
               e == IF first.ok
                    THEN Parse("compare", toks, first.pos,
                               [left |-> first.node, ops |-> <<>>,
                                comparators |-> <<>>])
                    ELSE ParseFail
           IN  IF ~e.ok THEN ParseFail
               ELSE IF IsOp(toks, e.pos, ",")
               THEN IF e.pos + 1 > Len(toks) \/ IsOp(toks, e.pos + 1, ")")
                    THEN Parsed(Tuple(Append(a.acc, e.node)), e.pos + 1)
                    ELSE Parse("list", toks, e.pos + 1, [acc |-> Append(a.acc, e.node)])
               ELSE IF a.acc = <<>> THEN e
               ELSE Parsed(Tuple(Append(a.acc, e.node)), e.pos)
      [] rule = "compare" ->
           LET k == OpIn(toks, pos, CompareSyms)
               r == Parse("binary", toks, pos + 1, [min |-> 1])
           IN  IF k = 0
               THEN Parsed(IF a.ops = <<>> THEN a.left
                           ELSE Compare(a.left, a.ops, a.comparators), pos)
               ELSE IF r.ok
               THEN Parse("compare", toks, r.pos,
                          [left |-> a.left, ops |-> Append(a.ops, CompareOps[k]),
                           comparators |-> Append(a.comparators, r.node)])
               ELSE ParseFail
      [] rule = "binary" ->
           LET first == Parse("factor", toks, pos, a)
           IN  IF first.ok
               THEN Parse("binary_rest", toks, first.pos,
                          [min |-> a.min, left |-> first.node])
               ELSE ParseFail
      [] rule = "binary_rest" ->
           LET k == BinaryAt(toks, pos, a.min)
               r == Parse("binary", toks, pos + 1, [min |-> k[1] + 1])
           IN  IF k[1] = 0 THEN Parsed(a.left, pos)
               ELSE IF r.ok
               THEN Parse("binary_rest", toks, r.pos,
                          [min |-> a.min,
                           left |-> BinOp(LevelOps[k[1]].op[k[2]], a.left, r.node)])
               ELSE ParseFail
      [] rule = "factor" ->
           LET u == OpIn(toks, pos, UnarySyms)
               o == Parse("factor", toks, pos + 1, a)
               atom == Parse("atom", toks, pos, a)
               b == IF atom.ok
                    THEN Parse("trailers", toks, atom.pos, [left |-> atom.node])
                    ELSE ParseFail
               e == Parse("factor", toks, b.pos + 1, a)
           IN  IF u # 0
               THEN IF o.ok THEN Parsed(UnaryOp(UnaryOps[u], o.node), o.pos)
                    ELSE ParseFail
               ELSE IF b.ok /\ IsOp(toks, b.pos, "**")
               THEN IF e.ok THEN Parsed(BinOp("Pow", b.node, e.node), e.pos)
                    ELSE ParseFail
               ELSE b
      [] rule = "trailers" ->
           IF IsOp(toks, pos, ".")
           THEN IF pos + 1 <= Len(toks) /\ toks[pos + 1].k = "name"
                   /\ toks[pos + 1].s \notin Keywords
                THEN Parse("trailers", toks, pos + 2,
                           [left |-> Attribute(a.left, toks[pos + 1].s)])
                ELSE ParseFail
           ELSE IF IsOp(toks, pos, "(")
           THEN IF IsOp(toks, pos + 1, ")")
                THEN Parse("trailers", toks, pos + 2, [left |-> Call(a.left, <<>>)])
                ELSE LET inner == Parse("list", toks, pos + 1, [acc |-> <<>>])
                     IN  IF inner.ok /\ IsOp(toks, inner.pos, ")")
                         THEN Parse("trailers", toks, inner.pos + 1,
                                [left |-> Call(a.left,
                                               IF inner.node.node = "Tuple"
                                               THEN inner.node.elts
                                               ELSE <<inner.node>>)])
                         ELSE ParseFail
           ELSE Parsed(a.left, pos)
      [] rule = "atom" ->
           IF pos > Len(toks) THEN ParseFail
           ELSE LET tk == toks[pos]
                IN  CASE tk.k = "int" -> Parsed(Constant(IntValue(tk.s)), pos + 1)
                      [] tk.k = "float" -> Parsed(Constant(FloatValue(tk.s)), pos + 1)
                      [] tk.k = "str" -> Parse("strings", toks, pos, [acc |-> ""])
                      [] tk.k = "name" ->
                           IF tk.s = "True" THEN Parsed(Constant(PyBool(TRUE)), pos + 1)
                           ELSE IF tk.s = "False"
                           THEN Parsed(Constant(PyBool(FALSE)), pos + 1)
                           ELSE IF tk.s = "None" THEN Parsed(Constant(None), pos + 1)
                           ELSE IF tk.s \in Keywords THEN ParseFail
                           ELSE Parsed(Name(tk.s), pos + 1)
                      [] tk.k = "op" /\ tk.s = "(" ->
                           IF IsOp(toks, pos + 1, ")") THEN Parsed(Tuple(<<>>), pos + 2)
                           ELSE LET inner == Parse("list", toks, pos + 1, [acc |-> <<>>])
                                IN  IF inner.ok /\ IsOp(toks, inner.pos, ")")
                                    THEN Parsed(inner.node, inner.pos + 1)
                                    ELSE ParseFail
                      [] OTHER -> ParseFail
      [] rule = "strings" ->
           IF pos <= Len(toks) /\ toks[pos].k = "str"
           THEN Parse("strings", toks, pos + 1, [acc |-> a.acc \o toks[pos].s])
           ELSE Parsed(Constant(PyStr(a.acc)), pos)

\* ast.parse(text, mode="eval").body: Return(node) or Raise("SyntaxError", ...)
ast_parse(text) ==
    LET toks == Tokenize(text, 1)
        r == Parse("list", toks, 1, [acc |-> <<>>])
    IN  IF toks # <<>> /\ (\A k \in 1..Len(toks) : toks[k].k # "err")
           /\ r.ok /\ r.pos = Len(toks) + 1
        THEN Return(r.node)
        ELSE Raise("SyntaxError", SyntaxErrorText)

\* float(text) for text of the form \d+(?:\.\d+)?
float(text) == FloatValue(text)

(***************************************************************************)
(* agent/utils.py: ALLOWED_OPS, _eval_node, safe_eval, with the operator   *)
(* module's functions on the values of the model.  A power with a          *)
(* non-integral exponent has the value Unmodelled; the signed zero is not  *)
(* modelled, and of the % formatting of a string the conversions d and s.  *)
(***************************************************************************)
Unmodelled == [t |-> "unmodelled"]

TypeErrorOf(sym, a, b) ==
    Raise("TypeError", "unsupported operand type(s) for " \o sym \o ": '"
                         \o a.t \o "' and '" \o b.t \o "'")

\* the ZeroDivisionError of an operator, with the message the operator gives it
ZeroDivision(text) == Raise("ZeroDivisionError", text)

\* floor(x / y), y # 0
FloorDiv(x, y) == IF y > 0 THEN x \div y ELSE (-x) \div (-y)

RECURSIVE Repeat(_, _)
Repeat(s, k) == IF k <= 0 THEN "" ELSE s \o Repeat(s, k - 1)

operator_add(a, b) ==
    IF IsNumber(a) /\ IsNumber(b)
    THEN Return(Num(IsFloaty(a, b), a.n * b.d + b.n * a.d, a.d * b.d))
    ELSE IF a.t = "str" /\ b.t = "str" THEN Return(PyStr(a.s \o b.s))
    ELSE IF a.t = "str"
    THEN Raise("TypeError", "can only concatenate str (not \"" \o b.t \o "\") to str")
    ELSE TypeErrorOf("+", a, b)

operator_sub(a, b) ==
    IF IsNumber(a) /\ IsNumber(b)
    THEN Return(Num(IsFloaty(a, b), a.n * b.d - b.n * a.d, a.d * b.d))
    ELSE TypeErrorOf("-", a, b)

operator_mul(a, b) ==
    IF IsNumber(a) /\ IsNumber(b)
    THEN Return(Num(IsFloaty(a, b), a.n * b.n, a.d * b.d))
    ELSE IF a.t = "str" /\ b.t \in {"int", "bool"} THEN Return(PyStr(Repeat(a.s, b.n)))
    ELSE IF b.t = "str" /\ a.t \in {"int", "bool"} THEN Return(PyStr(Repeat(b.s, a.n)))
    ELSE IF a.t = "str"
    THEN Raise("TypeError", "can't multiply sequence by non-int of type '" \o b.t \o "'")
    ELSE IF b.t = "str"
    THEN Raise("TypeError", "can't multiply sequence by non-int of type '" \o a.t \o "'")
    ELSE TypeErrorOf("*", a, b)

\* a division that gives an int when the quotient of two ints is exact
operator_truedivExact(a, b) ==
    IF IsNumber(a) /\ IsNumber(b)
    THEN IF b.n = 0
         THEN ZeroDivision(IF IsFloaty(a, b) THEN "float division by zero"
                           ELSE "division by zero")
         ELSE Return(Num(IsFloaty(a, b) \/ (a.n % b.n # 0), a.n * b.d, a.d * b.n))
    ELSE TypeErrorOf("/", a, b)

operator_truediv(a, b) ==
    IF IsNumber(a) /\ IsNumber(b)
    THEN IF b.n = 0
         THEN ZeroDivision(IF IsFloaty(a, b) THEN "float division by zero"
                           ELSE "division by zero")
         ELSE Return(PyFloat(a.n * b.d, a.d * b.n))
    ELSE TypeErrorOf("/", a, b)

\* int(x) of a number: truncation towards zero
Trunc(v) == IF v.n >= 0 THEN v.n \div v.d ELSE -((-v.n) \div v.d)

\* the positions of the conversion specifiers %d and %s of a format string
Specifiers(s) == {i \in 1..(Len(s) - 1) : LitAt(s, i, "%d") \/ LitAt(s, i, "%s")}

\* str % value, the printf-style formatting of a string with one value that
\* is no tuple; a format with a percent sign outside %d and %s is not modelled
str_mod(s, b) ==
    IF {i \in 1..Len(s) : Ch(s, i) = "%"} # Specifiers(s) THEN Return(Unmodelled)
    ELSE IF Specifiers(s) = {}
    THEN Raise("TypeError", "not all arguments converted during string formatting")
    ELSE IF Cardinality(Specifiers(s)) > 1
    THEN Raise("TypeError", "not enough arguments for format string")
    ELSE IF Contains(s, "%s") THEN Return(PyStr(replace(s, "%s", str(b))))
    ELSE IF IsNumber(b) THEN Return(PyStr(replace(s, "%d", IntStr(Trunc(b)))))
    ELSE Raise("TypeError", "%d format: a real number is required, not " \o b.t)

operator_mod(a, b) ==
    IF a.t = "str" THEN str_mod(a.s, b)
    ELSE IF IsNumber(a) /\ IsNumber(b)
    THEN IF b.n = 0
         THEN ZeroDivision(IF IsFloaty(a, b) THEN "float modulo"
                           ELSE "integer modulo by zero")
         ELSE LET q == FloorDiv(a.n * b.d, a.d * b.n)
              IN  Return(Num(IsFloaty(a, b), a.n * b.d - q * b.n * a.d, a.d * b.d))
    ELSE TypeErrorOf("%", a, b)

operator_pow(a, b) ==
    IF IsNumber(a) /\ IsNumber(b)
    THEN IF b.d # 1 THEN Return(Unmodelled)
         ELSE IF b.n >= 0
         THEN Return(Num(IsFloaty(a, b), Power(a.n, b.n), Power(a.d, b.n)))
         ELSE IF a.n = 0
         THEN ZeroDivision("0.0 cannot be raised to a negative power")
         ELSE Return(PyFloat(Power(a.d, -b.n), Power(a.n, -b.n)))
    ELSE TypeErrorOf("** or pow()", a, b)

operator_neg(a) ==
    IF IsNumber(a) THEN Return(Num(a.t = "float", -a.n, a.d))
    ELSE Raise("TypeError", "bad operand type for unary -: '" \o a.t \o "'")

\* the keys of ALLOWED_OPS
ALLOWED_OPS == {"Add", "Sub", "Mult", "Div", "Pow", "USub", "Mod"}

\* ALLOWED_OPS[op](a, b) for a binary operator
ApplyBinary(op, a, b) ==
    CASE op = "Add" -> operator_add(a, b)
      [] op = "Sub" -> operator_sub(a, b)
      [] op = "Mult" -> operator_mul(a, b)
      [] op = "Div" -> operator_truediv(a, b)
      [] op = "Pow" -> operator_pow(a, b)
      [] op = "Mod" -> operator_mod(a, b)
      [] op = "USub" -> Raise("TypeError", "neg expected 1 argument, got 2")

\* ALLOWED_OPS[op](a) for a unary operator
ApplyUnary(op, a) ==
    IF op = "USub" THEN operator_neg(a)
    ELSE Raise("TypeError", "expected 2 arguments, got 1")

RECURSIVE _eval_node(_)
_eval_node(node) ==
    CASE node.node = "Constant" -> Return(node.value)
      [] node.node = "BinOp" ->
           LET left_val == _eval_node(node.left)
               right_val == _eval_node(node.right)
           IN  IF ~left_val.ok THEN left_val
               ELSE IF ~right_val.ok THEN right_val
               ELSE IF node.op \notin ALLOWED_OPS
               THEN Raise("ValueError", "Unsupported operator: " \o node.op)
               ELSE ApplyBinary(node.op, left_val.val, right_val.val)
      [] node.node = "UnaryOp" ->
           LET operand_val == _eval_node(node.operand)
           IN  IF ~operand_val.ok THEN operand_val
               ELSE IF node.op \notin ALLOWED_OPS
               THEN Raise("ValueError", "Unsupported unary operator: " \o node.op)
               ELSE ApplyUnary(node.op, operand_val.val)
      [] OTHER ->
           Raise("ValueError", "Unsupported expression type: " \o node.node)

\* safe_eval(expr): every exception of the parse and of the evaluation is
\* re-raised as ValueError
safe_eval(expr) ==
    Reraise(Then(ast_parse(strip(expr)), _eval_node),
            "ValueError", "Invalid expression '" \o expr \o "': ")

(***************************************************************************)
(* The state: the tables the tool singletons hold, and one call of the     *)
(* public interface with the position of its execution.                    *)
(***************************************************************************)
VARIABLES
    kb_data,       \* KnowledgeBaseTool._kb_data["entries"]
    kb_path,       \* KnowledgeBaseTool.kb_path
    kb_files,      \* the text of the file at each path, None where there is none
    translations,  \* TranslatorTool._translations
    patterns,      \* QueryPlanner.patterns: the keys the dict holds
    entry,         \* the public operation called: "plan", "answer", "run", ...
    argv,          \* main: sys.argv[1:]
    stdout,        \* main: the lines printed
    query,         \* its argument
    tool_call,     \* BaseTool.run: the tool and the keyword arguments of the call
    pc,            \* where its execution stands
    stage,         \* QueryPlanner.plan: the index of the next planner to try
    consulted,     \* QueryPlanner.plan: the planners called so far
    planned,       \* the outcome of QueryPlanner.plan, once it has ended
    calls,         \* the collaborators process_query has called so far
    response,      \* the AgentResponse of process_query, once it has ended
    returned       \* what the public operation returned (or raised)

vars == <<kb_data, kb_path, kb_files, translations, patterns, entry, argv, stdout, query,
          tool_call, pc, stage, consulted, planned, calls, response, returned>>

(***************************************************************************)
(* agent/tools/calculator.py                                               *)
(***************************************************************************)
\* isinstance(v, object)
isinstance_object(v) == TRUE

isinstance_str(v) == v.t = "str"

calculator_validate_args(args) ==
    IF "expr" \notin DOMAIN args
    THEN Raise("ValidationError", "Calculator requires 'expr' argument")
    ELSE IF ~isinstance_str(args.expr)
    THEN Raise("ValidationError", "Expression must be a string")
    ELSE Return(None)

\* re.sub(r'^what\s+is\s+', '', s)
StripWhatIs(s) ==
    LET a == RunEnd(s, 5, SpaceSet)
        b == RunEnd(s, a + 2, SpaceSet)
    IN  IF LitAt(s, 1, "what") /\ a > 5 /\ LitAt(s, a, "is") /\ b > a + 2
        THEN SubSeq(s, b, Len(s))
        ELSE s

\* re.sub(r'\?$', '', s)
StripQuestionMark(s) ==
    IF Len(s) >= 1 /\ Ch(s, Len(s)) = "?" THEN SubSeq(s, 1, Len(s) - 1) ELSE s

\* (\d+(?:\.\d+)?)%\s+of\s+(\d+(?:\.\d+)?)
percentage_match(s) == Search(s, PercentageMatchAt)

_handle_percentage(expr) ==
    IfMatch(percentage_match(expr),
            LAMBDA g : "(" \o g[1] \o " / 100) * " \o g[2],
            expr)

\* \s+(.+) at p at the end of a pattern: the group. The greedy \s+ gives its
\* last character to the group when nothing follows it.
SpaceRestAt(s, p) ==
    LET a == RunEnd(s, p, SpaceSet)
    IN  IF p < 1 \/ a = p THEN NoMatch
        ELSE IF a <= Len(s) THEN Match(<<SubSeq(s, a, Len(s))>>)
        ELSE IF a - p >= 2 THEN Match(<<Ch(s, Len(s))>>)
        ELSE NoMatch

AddMatchAt(s, i) ==
    LET p == RunEnd(s, i + 3, SpaceSet)
        e == NumEnd(s, p)
        a == RunEnd(s, e, SpaceSet)
        rest == SpaceRestAt(s, a + 2)
    IN  IF /\ LitAt(s, i, "add") /\ p > i + 3 /\ e # 0
           /\ a > e /\ LitAt(s, a, "to") /\ rest.matched
        THEN Match(<<SubSeq(s, p, e - 1)>> \o rest.groups)
        ELSE NoMatch

\* add\s+(\d+(?:\.\d+)?)\s+to\s+(.+)
add_pattern(s) == Search(s, AddMatchAt)

\* average\s+(?:of\s+)?(.+) at i: the group; the optional part is tried first
AverageMatchAt(s, i) ==
    LET p == RunEnd(s, i + 7, SpaceSet)
        withOf == IF p > i + 7 /\ LitAt(s, p, "of") THEN SpaceRestAt(s, p + 2) ELSE NoMatch
    IN  IF ~LitAt(s, i, "average") THEN NoMatch
        ELSE IF withOf.matched THEN withOf
        ELSE SpaceRestAt(s, i + 7)

avg_pattern(s) == Search(s, AverageMatchAt)

\* re.findall(r'\d+(?:\.\d+)?', s) from i on
RECURSIVE FindNumbers(_, _)
FindNumbers(s, i) ==
    IF i > Len(s) THEN <<>>
    ELSE IF NumEnd(s, i) # 0
    THEN <<SubSeq(s, i, NumEnd(s, i) - 1)>> \o FindNumbers(s, NumEnd(s, i))
    ELSE FindNumbers(s, i + 1)

\* sep.join(parts)
RECURSIVE join(_, _)
join(sep, parts) ==
    IF parts = <<>> THEN ""
    ELSE IF Len(parts) = 1 THEN parts[1]
    ELSE parts[1] \o sep \o join(sep, SubSeq(parts, 2, Len(parts)))

_handle_average(expr) ==
    IF Contains(expr, "temperature in paris and london") THEN "(18 + 17) / 2"
    ELSE IfMatch(avg_pattern(expr),
                 LAMBDA g : Let(FindNumbers(g[1], 1),
                                LAMBDA numbers :
                                    IF Len(numbers) >= 2
                                    THEN "(" \o join(" + ", numbers) \o ") / "
                                           \o IntStr(Len(numbers))
                                    ELSE expr),
                 expr)

_preprocess_expression(expr) ==
    Let(StripQuestionMark(StripWhatIs(lower(expr))), LAMBDA cleaned :
        IF Contains(cleaned, "% of") THEN _handle_percentage(cleaned)
        ELSE IfMatch(add_pattern(cleaned),
                     LAMBDA g : g[1] \o " + ("
                                  \o (IF Contains(g[2], "average")
                                      THEN _handle_average(g[2]) ELSE g[2])
                                  \o ")",
                     strip(replace(replace(replace(replace(cleaned,
                         "plus", "+"), "minus", "-"), "times", "*"),
                         "divided by", "/"))))

\* CalculatorTool.execute(expr)
calculator_execute(args) ==
    Reraise(Then(safe_eval(_preprocess_expression(args.expr.s)),
                 LAMBDA result : Return(str(result))),
            "ToolExecutionError", "Calculation failed: ")

(***************************************************************************)
(* agent/tools/weather.py                                                  *)
(***************************************************************************)
\* WeatherTool._weather_data
_weather_data ==
    [paris     |-> [temp |-> PyFloat(18, 1), condition |-> "cloudy"],
     london    |-> [temp |-> PyFloat(17, 1), condition |-> "rainy"],
     dhaka     |-> [temp |-> PyFloat(31, 1), condition |-> "sunny"],
     amsterdam |-> [temp |-> PyFloat(39, 2), condition |-> "partly cloudy"],
     tokyo     |-> [temp |-> PyFloat(25, 1), condition |-> "humid"],
     berlin    |-> [temp |-> PyFloat(16, 1), condition |-> "overcast"],
     sydney    |-> [temp |-> PyFloat(20, 1), condition |-> "clear"]]
      @@ ("new york" :> [temp |-> PyFloat(22, 1), condition |-> "sunny"])

\* the entry of a city unknown to _weather_data
DefaultWeather == [temp |-> PyFloat(20, 1), condition |-> "mild"]

weather_validate_args(args) ==
    IF "city" \notin DOMAIN args
    THEN Raise("ValidationError", "Weather tool requires 'city' argument")
    ELSE IF ~isinstance_str(args.city)
    THEN Raise("ValidationError", "City must be a string")
    ELSE Return(None)

\* a < b for two numbers
LessThan(a, b) == a.n * b.d < b.n * a.d

\* (\d+)\s+words? with the digits starting at i: the digits
WordCountMatchAt(s, i) ==
    LET e == RunEnd(s, i, DigitSet)
        a == RunEnd(s, e, SpaceSet)
    IN  IF i >= 1 /\ e > i /\ a > e /\ LitAt(s, a, "word")
        THEN Match(<<SubSeq(s, i, e - 1)>>)
        ELSE NoMatch

word_match(s) == Search(s, WordCountMatchAt)

_generate_summary(temp, condition, query_text) ==
    LET temp_desc == IF LessThan(temp, PyInt(10)) THEN "cold"
                     ELSE IF LessThan(temp, PyInt(20)) THEN "mild"
                     ELSE IF LessThan(temp, PyInt(30)) THEN "warm"
                     ELSE "hot"
        m == word_match(query_text)
        word_count == DigitsValue(m.groups[1], 0)
    IN  IF m.matched /\ word_count = 3
        THEN title(temp_desc) \o " and " \o condition \o "."
        ELSE IF m.matched /\ word_count = 2
        THEN title(temp_desc) \o " " \o condition \o "."
        ELSE IF m.matched /\ word_count = 1
        THEN title(temp_desc)
        ELSE title(temp_desc) \o " and " \o condition \o "."

\* WeatherTool.execute(city, kwargs)
weather_execute(args) ==
    LET normalized_city == lower(strip(args.city.s))
        weather_info == IF normalized_city \in DOMAIN _weather_data
                        THEN _weather_data[normalized_city]
                        ELSE DefaultWeather
        query_text == IF "query" \in DOMAIN args THEN lower(args.query.s) ELSE ""
    IN  IF Contains(query_text, "summarize") /\ Contains(query_text, "words")
        THEN Return(_generate_summary(weather_info.temp, weather_info.condition,
                                      query_text))
        ELSE Return(str(weather_info.temp) \o " C")

\* WeatherTool.get_temperature_value(city)
get_temperature_value(city) ==
    LET normalized_city == lower(strip(city))
    IN  IF normalized_city \in DOMAIN _weather_data
        THEN _weather_data[normalized_city].temp
        ELSE PyFloat(20, 1)

(***************************************************************************)
(* agent/tools/kb.py                                                       *)
(***************************************************************************)
\* the entries of the knowledge base when data/kb.json does not exist
DefaultEntries ==
    << [name |-> "Ada Lovelace",
        summary |-> "Ada Lovelace was a 19th-century mathematician regarded as an early computing pioneer for her work on Charles Babbage's Analytical Engine."],
       [name |-> "Alan Turing",
        summary |-> "Alan Turing was a mathematician and logician, widely considered to be the father of theoretical computer science and artificial intelligence."] >>

kb_validate_args(args) ==
    IF "query" \notin DOMAIN args
    THEN Raise("ValidationError", "Knowledge base requires 'query' argument")
    ELSE IF ~isinstance_str(args.query)
    THEN Raise("ValidationError", "Query must be a string")
    ELSE Return(None)

\* the loop of KnowledgeBaseTool.execute over the entries from index i on
RECURSIVE SearchEntries(_, _, _)
SearchEntries(entries, i, query_lower) ==
    IF i > Len(entries) THEN "No entry found."
    ELSE LET name == lower(entries[i].name)
         IN  IF Contains(name, query_lower) \/ Contains(query_lower, name)
             THEN entries[i].summary
             ELSE SearchEntries(entries, i + 1, query_lower)

\* KnowledgeBaseTool.execute(query, kwargs) over the entries held
kb_execute(entries, args) ==
    Return(SearchEntries(entries, 1, strip(lower(args.query.s))))

\* KnowledgeBaseTool.add_entry(name, summary)
\* add_entry that puts the entry in the place of the table
add_entryReplacing(entries, name, summary) ==
    <<[name |-> name, summary |-> summary]>>

\* add_entry that puts the entry before the entries held
add_entryFirst(entries, name, summary) ==
    <<[name |-> name, summary |-> summary]>> \o entries

add_entry(entries, name, summary) ==
    Append(entries, [name |-> name, summary |-> summary])

\* json.dumps of a str with ensure_ascii=False: the characters between
\* quotes, the quote, the backslash and the control characters escaped
JsonEscaped ==
    ("\"" :> "\\\"") @@ ("\\" :> "\\\\") @@ ("\n" :> "\\n") @@ ("\t" :> "\\t")

\* the text from i on, from one character that is escaped to the next
RECURSIVE JsonEscapeFrom(_, _)
JsonEscapeFrom(s, i) ==
    Let({k \in i..Len(s) : Ch(s, k) \in DOMAIN JsonEscaped}, LAMBDA E :
        IF E = {} THEN SubSeq(s, i, Len(s))
        ELSE SubSeq(s, i, Least(E) - 1) \o JsonEscaped[Ch(s, Least(E))]
               \o JsonEscapeFrom(s, Least(E) + 1))

json_string(s) == "\"" \o JsonEscapeFrom(s, 1) \o "\""

\* one entry of the list as json.dump writes it with indent=2: the keys in
\* the order add_entry inserted them
EntryText(e) ==
    "    {\n      \"name\": " \o json_string(e.name)
      \o ",\n      \"summary\": " \o json_string(e.summary) \o "\n    }"

\* json.dump(self._kb_data, f, indent=2, ensure_ascii=False): the text written
json_dump(entries) ==
    IF entries = <<>> THEN "{\n  \"entries\": []\n}"
    ELSE "{\n  \"entries\": [\n"
           \o join(",\n", [i \in 1..Len(entries) |-> EntryText(entries[i])])
           \o "\n  ]\n}"

\* json.load: the value parsed and the position after it, or the failure
\* (json.JSONDecodeError)
JsonParsed(v, pos) == [ok |-> TRUE, val |-> v, pos |-> pos]
JsonFail == [ok |-> FALSE, val |-> "", pos |-> 0]

JsonSpace == {" ", "\n", "\t", "\r"}

\* the character an escape of a JSON string stands for
JsonUnescaped ==
    ("\"" :> "\"") @@ ("\\" :> "\\") @@ ("/" :> "/") @@ ("n" :> "\n")
      @@ ("t" :> "\t") @@ ("r" :> "\r")

\* the content of a JSON string with its escapes replaced, from one escape
\* to the next; an escape JSON does not know fails
RECURSIVE JsonUnescapeFrom(_, _, _)
JsonUnescapeFrom(s, i, acc) ==
    Let({k \in i..Len(s) : Ch(s, k) = "\\"}, LAMBDA B :
        IF B = {} THEN JsonParsed(acc \o SubSeq(s, i, Len(s)), 0)
        ELSE IF Least(B) < Len(s) /\ Ch(s, Least(B) + 1) \in DOMAIN JsonUnescaped
        THEN JsonUnescapeFrom(s, Least(B) + 2,
                              acc \o SubSeq(s, i, Least(B) - 1)
                                  \o JsonUnescaped[Ch(s, Least(B) + 1)])
        ELSE JsonFail)

\* the quote at j closes the string that began before i: the backslashes
\* that stand right before it are even in number
ClosesString(s, i, j) ==
    /\ Ch(s, j) = "\""
    /\ Cardinality({k \in i..(j - 1) : \A m \in k..(j - 1) : Ch(s, m) = "\\"}) % 2 = 0

\* the first quote from j on that closes the string that began before i,
\* looked for in stretches of 32 characters; 0 when there is none
RECURSIVE StringEnd(_, _, _)
StringEnd(s, i, j) ==
    IF j > Len(s) THEN 0
    ELSE Let({k \in j..(j + 31) : k <= Len(s) /\ ClosesString(s, i, k)}, LAMBDA C :
             IF C # {} THEN Least(C) ELSE StringEnd(s, i, j + 32))

\* a JSON string from i, the position after its opening quote: up to the
\* first quote that closes it, with no control character in it
JsonStringFrom(s, i) ==
    Let(StringEnd(s, i, i), LAMBDA e :
        IF e = 0 THEN JsonFail
        ELSE IF \E k \in i..(e - 1) : Ch(s, k) \in {"\n", "\t", "\r"}
        THEN JsonFail
        ELSE Let(JsonUnescapeFrom(SubSeq(s, i, e - 1), 1, ""), LAMBDA u :
                 IF u.ok THEN JsonParsed(u.val, e + 1) ELSE JsonFail))

\* the JSON values the knowledge base is made of: a string, an array (a
\* sequence), an object (a function of its keys, the last of equal keys kept)
RECURSIVE JsonParse(_, _, _, _)
JsonParse(rule, s, i, acc) ==
    CASE rule = "value" ->
           Let(RunEnd(s, i, JsonSpace), LAMBDA p :
               IF p > Len(s) THEN JsonFail
               ELSE IF Ch(s, p) = "\"" THEN JsonStringFrom(s, p + 1)
               ELSE IF Ch(s, p) = "["
               THEN Let(RunEnd(s, p + 1, JsonSpace), LAMBDA q :
                        IF q <= Len(s) /\ Ch(s, q) = "]"
                        THEN JsonParsed(<<>>, q + 1)
                        ELSE JsonParse("elements", s, q, <<>>))
               ELSE IF Ch(s, p) = "{"
               THEN Let(RunEnd(s, p + 1, JsonSpace), LAMBDA q :
                        IF q <= Len(s) /\ Ch(s, q) = "}"
                        THEN JsonParsed(<<>>, q + 1)
                        ELSE JsonParse("members", s, q, <<>>))
               ELSE JsonFail)
      [] rule = "elements" ->
           Let(JsonParse("value", s, i, <<>>), LAMBDA v :
               IF ~v.ok THEN JsonFail
               ELSE Let(RunEnd(s, v.pos, JsonSpace), LAMBDA p :
                        IF p > Len(s) THEN JsonFail
                        ELSE IF Ch(s, p) = ","
                        THEN JsonParse("elements", s, p + 1, Append(acc, v.val))
                        ELSE IF Ch(s, p) = "]"
                        THEN JsonParsed(Append(acc, v.val), p + 1)
                        ELSE JsonFail))
      [] rule = "members" ->
           IF i > Len(s) \/ Ch(s, i) # "\"" THEN JsonFail
           ELSE Let(JsonStringFrom(s, i + 1), LAMBDA k :
                    IF ~k.ok THEN JsonFail
                    ELSE Let(RunEnd(s, k.pos, JsonSpace), LAMBDA c :
                             IF c > Len(s) \/ Ch(s, c) # ":" THEN JsonFail
                             ELSE JsonParse("member", s, c + 1,
                                            <<k.val, acc>>)))
      [] rule = "member" ->
           Let(JsonParse("value", s, i, <<>>), LAMBDA v :
               IF ~v.ok THEN JsonFail
               ELSE Let(RunEnd(s, v.pos, JsonSpace), LAMBDA p :
                        IF p > Len(s) THEN JsonFail
                        ELSE IF Ch(s, p) = ","
                        THEN JsonParse("members", s, RunEnd(s, p + 1, JsonSpace),
                                       (acc[1] :> v.val) @@ acc[2])
                        ELSE IF Ch(s, p) = "}"
                        THEN JsonParsed((acc[1] :> v.val) @@ acc[2], p + 1)
                        ELSE JsonFail))

\* json.load(f) of a file with that text: nothing but space after the value
json_load(text) ==
    Let(JsonParse("value", text, 1, <<>>), LAMBDA v :
        IF v.ok /\ RunEnd(text, v.pos, JsonSpace) > Len(text)
        THEN Return(v.val)
        ELSE Raise("JSONDecodeError", "Expecting value"))

\* os.path.dirname(path): what stands before the last slash
dirname(path) ==
    Let({i \in 1..Len(path) : Ch(path, i) = "/"}, LAMBDA slashes :
        IF slashes = {} THEN ""
        ELSE SubSeq(path, 1, (CHOOSE i \in slashes : \A j \in slashes : j <= i) - 1))

\* os.makedirs(name, exist_ok=True): the empty name is no directory
makedirs(name) ==
    IF name = ""
    THEN Raise("FileNotFoundError", "[Errno 2] No such file or directory: ''")
    ELSE Return(None)

\* KnowledgeBaseTool.save_knowledge_base(): the text the file at kb_path
\* holds afterwards, or the ToolExecutionError of a failure
save_knowledge_base(path, entries) ==
    Reraise(Then(makedirs(dirname(path)),
                 LAMBDA made : Return(PyStr(json_dump(entries)))),
            "ToolExecutionError", "Failed to save knowledge base: ")

\* KnowledgeBaseTool._load_knowledge_base(): the entries held after it, given
\* what the file at kb_path holds (None when there is no such file)
_load_knowledge_base(file) ==
    IF IsNone(file) THEN DefaultEntries
    ELSE Let(json_load(file.s), LAMBDA data :
             IF data.ok THEN data.val.entries ELSE <<>>)

(***************************************************************************)
(* agent/tools/translator.py                                               *)
(***************************************************************************)
\* TranslatorTool._translations after construction
InitialTranslations ==
    (<<"hello", "english", "spanish">> :> "hola")
 @@ (<<"hello", "english", "french">> :> "bonjour")
 @@ (<<"hello", "english", "german">> :> "hallo")
 @@ (<<"hello", "english", "italian">> :> "ciao")
 @@ (<<"goodbye", "english", "spanish">> :> "adiós")
 @@ (<<"goodbye", "english", "french">> :> "au revoir")
 @@ (<<"goodbye", "english", "german">> :> "auf wiedersehen")
 @@ (<<"thank you", "english", "spanish">> :> "gracias")
 @@ (<<"thank you", "english", "french">> :> "merci")
 @@ (<<"thank you", "english", "german">> :> "danke")
 @@ (<<"good morning", "english", "spanish">> :> "buenos días")
 @@ (<<"good morning", "english", "french">> :> "bonjour")
 @@ (<<"good morning", "english", "german">> :> "guten morgen")
 @@ (<<"how are you", "english", "spanish">> :> "¿cómo estás?")
 @@ (<<"how are you", "english", "french">> :> "comment allez-vous?")
 @@ (<<"how are you", "english", "german">> :> "wie geht es ihnen?")

\* TranslatorTool._language_codes
_language_codes ==
    [en |-> "english", eng |-> "english", english |-> "english",
     es |-> "spanish", spa |-> "spanish", spanish |-> "spanish",
     fr |-> "french", fra |-> "french", french |-> "french",
     de |-> "german", ger |-> "german", german |-> "german",
     it |-> "italian", ita |-> "italian", italian |-> "italian"]

\* the first argument of translator_required_args that fails the check of
\* validate_args, 0 when none does
RECURSIVE FirstBadArgument(_, _, _)
FirstBadArgument(args, names, i) ==
    IF i > Len(names) THEN 0
    ELSE IF names[i] \notin DOMAIN args \/ ~isinstance_str(args[names[i]]) THEN i
    ELSE FirstBadArgument(args, names, i + 1)

translator_validate_args(args) ==
    LET names == <<"text", "from_lang", "to_lang">>
        i == FirstBadArgument(args, names, 1)
    IN  IF i = 0 THEN Return(None)
        ELSE IF names[i] \notin DOMAIN args
        THEN Raise("ValidationError", "Translator requires '" \o names[i] \o "' argument")
        ELSE Raise("ValidationError", "Argument '" \o names[i] \o "' must be a string")

_normalize_language(lang) ==
    LET lang_lower == strip(lower(lang))
    IN  IF lang_lower \in DOMAIN _language_codes THEN _language_codes[lang_lower]
        ELSE lang_lower

\* TranslatorTool.execute(text, from_lang, to_lang, kwargs) over the table held
translator_execute(table, args) ==
    LET from_lang_norm == _normalize_language(args.from_lang.s)
        to_lang_norm == _normalize_language(args.to_lang.s)
        translation_key == <<strip(lower(args.text.s)), from_lang_norm, to_lang_norm>>
    IN  IF from_lang_norm = to_lang_norm THEN Return(args.text.s)
        ELSE IF translation_key \in DOMAIN table THEN Return(table[translation_key])
        ELSE Return(args.text.s \o " [" \o to_lang_norm \o "]")

\* TranslatorTool.add_translation(text, from_lang, to_lang, translation)
add_translation(table, text, from_lang, to_lang, translation) ==
    LET key == <<strip(lower(text)), _normalize_language(from_lang),
                 _normalize_language(to_lang)>>
    IN  (key :> translation) @@ table

(***************************************************************************)
(* agent/tools/unitconv.py                                                 *)
(***************************************************************************)
\* the constant factors of UnitConverterTool._conversions
ConversionFactors ==
    (<<"usd", "eur">> :> float("0.9"))
 @@ (<<"eur", "usd">> :> float("1.1"))
 @@ (<<"usd", "gbp">> :> float("0.8"))
 @@ (<<"gbp", "usd">> :> float("1.25"))
 @@ (<<"eur", "gbp">> :> float("0.85"))
 @@ (<<"gbp", "eur">> :> float("1.18"))
 @@ (<<"m", "ft">> :> float("3.28084"))
 @@ (<<"ft", "m">> :> float("0.3048"))
 @@ (<<"km", "mi">> :> float("0.621371"))
 @@ (<<"mi", "km">> :> float("1.60934"))
 @@ (<<"kg", "lb">> :> float("2.20462"))
 @@ (<<"lb", "kg">> :> float("0.453592"))

\* the keys of _conversions whose value is the function (x * 9/5) + 32
ToFahrenheit == {<<"c", "f">>, <<"celsius", "fahrenheit">>}
\* the keys of _conversions whose value is the function (x - 32) * 5/9
ToCelsius == {<<"f", "c">>, <<"fahrenheit", "celsius">>}

unitconv_validate_args(args) ==
    IF "query" \notin DOMAIN args
    THEN Raise("ValidationError", "Unit converter requires 'query' argument")
    ELSE IF ~isinstance_str(args.query)
    THEN Raise("ValidationError", "Query must be a string")
    ELSE Return(None)

\* (\d+(?:\.\d+)?)\s+(\w+)\s+to\s+(\w+)
alternative_pattern(s) == Search(s, NumberUnitToUnitAt)

_parse_query(query_text) ==
    Let(strip(lower(query_text)), LAMBDA query_lower :
        IfMatch(pattern_conversion(query_lower),
                LAMBDA g : Return(<<float(g[1]), lower(g[2]), lower(g[3])>>),
        IfMatch(alternative_pattern(query_lower),
                LAMBDA g : Return(<<float(g[1]), lower(g[2]), lower(g[3])>>),
                Raise("ValueError",
                      "Could not parse conversion query: " \o query_text))))

_convert(value, from_unit, to_unit) ==
    LET conversion_key == <<from_unit, to_unit>>
    IN  IF from_unit = to_unit THEN Return(value)
        ELSE IF conversion_key \in ToFahrenheit
        THEN Return(PyFloat(value.n * 9 + 32 * 5 * value.d, 5 * value.d))
        ELSE IF conversion_key \in ToCelsius
        THEN Return(PyFloat((value.n - 32 * value.d) * 5, 9 * value.d))
        ELSE IF conversion_key \in DOMAIN ConversionFactors
        THEN Let(ConversionFactors[conversion_key], LAMBDA factor :
                 Return(PyFloat(value.n * factor.n, value.d * factor.d)))
        ELSE Raise("ValueError", "Cannot convert " \o from_unit \o " to " \o to_unit)

\* round(x, 2) of a float: to the nearest hundredth, a tie to the even one
round2(x) ==
    LET q == FloorDiv(x.n * 100, x.d)
        r == x.n * 100 - q * x.d
    IN  IF 2 * r > x.d \/ (2 * r = x.d /\ q % 2 = 1) THEN PyFloat(q + 1, 100)
        ELSE PyFloat(q, 100)

\* UnitConverterTool.execute(query, kwargs)
unitconv_execute(args) ==
    Reraise(Then(Then(_parse_query(args.query.s),
                      LAMBDA parsed : _convert(parsed[1], parsed[2], parsed[3])),
                 LAMBDA result : IF result.d = 1 THEN Return(IntStr(result.n))
                                 ELSE Return(str(round2(result)))),
            "ToolExecutionError", "Unit conversion failed: ")

(***************************************************************************)
(* agent/tools/base.py and agent/agent.py                                  *)
(***************************************************************************)
\* Agent.tools: the registry, by ToolName
tools == ToolName

\* tool.validate_args(args)
ValidateArgs(tool, args) ==
    CASE tool = CALCULATOR -> calculator_validate_args(args)
      [] tool = WEATHER -> weather_validate_args(args)
      [] tool = KNOWLEDGE_BASE -> kb_validate_args(args)
      [] tool = UNIT_CONVERTER -> unitconv_validate_args(args)
      [] tool = TRANSLATOR -> translator_validate_args(args)

\* tool.execute(args), over the tables the tools hold
Execute(tool, args) ==
    CASE tool = CALCULATOR -> calculator_execute(args)
      [] tool = WEATHER -> weather_execute(args)
      [] tool = KNOWLEDGE_BASE -> kb_execute(kb_data, args)
      [] tool = UNIT_CONVERTER -> unitconv_execute(args)
      [] tool = TRANSLATOR -> translator_execute(translations, args)

\* BaseTool.run(kwargs): validate, then execute
run(tool, args) ==
    Then(ValidateArgs(tool, args), LAMBDA valid : Execute(tool, args))

\* the names of the members of ToolName
MemberName ==
    [t \in ToolName |->
        CASE t = CALCULATOR -> "CALCULATOR"
          [] t = WEATHER -> "WEATHER"
          [] t = KNOWLEDGE_BASE -> "KNOWLEDGE_BASE"
          [] t = UNIT_CONVERTER -> "UNIT_CONVERTER"
          [] t = TRANSLATOR -> "TRANSLATOR"]

\* f"{plan.tool}": format() of a member of an Enum with a str mixin is
\* Enum.__str__ from Python 3.11 on (the member's value before)
FormatTool(tool) == "ToolName." \o MemberName[tool]

AgentResponse(result, tool_used, success, error) ==
    [result |-> result, tool_used |-> tool_used, success |-> success,
     error |-> error]

weather_keywords == {"temperature", "weather", "paris", "london", "average"}

_needs_weather_data(expr) ==
    \E keyword \in weather_keywords : Contains(lower(expr), keyword)

\* add\s+(\d+) at i: the digits
AddDigitsMatchAt(s, i) ==
    LET p == RunEnd(s, i + 3, SpaceSet)
        e == RunEnd(s, p, DigitSet)
    IN  IF LitAt(s, i, "add") /\ p > i + 3 /\ e > p
        THEN Match(<<SubSeq(s, p, e - 1)>>)
        ELSE NoMatch

add_digits(s) == Search(s, AddDigitsMatchAt)

\* (paris_temp + london_temp) / 2
average_temp ==
    operator_truediv(operator_add(get_temperature_value("paris"),
                                  get_temperature_value("london")).val,
                     PyInt(2)).val

\* _handle_weather_calculation that asks for no "average" in the expression
_handle_weather_calculationAnySum(expr) ==
    Reraise(Let(lower(expr), LAMBDA l :
                IfMatch(IF Contains(l, "paris and london") /\ Contains(l, "add")
                        THEN add_digits(l) ELSE NoMatch,
                        LAMBDA g : Return(str(operator_add(float(g[1]),
                                                           average_temp).val)),
                        run(CALCULATOR, [expr |-> PyStr(expr)]))),
            "ToolExecutionError", "Weather calculation failed: ")

_handle_weather_calculation(expr) ==
    Reraise(Let(lower(expr), LAMBDA l :
                IfMatch(IF /\ Contains(l, "paris and london")
                           /\ Contains(l, "add")
                           /\ Contains(l, "average")
                        THEN add_digits(l) ELSE NoMatch,
                        LAMBDA g : Return(str(operator_add(float(g[1]),
                                                           average_temp).val)),
                        run(CALCULATOR, [expr |-> PyStr(expr)]))),
            "ToolExecutionError", "Weather calculation failed: ")

\* plan.args.get("expr", "")
ExprOf(args) == IF "expr" \in DOMAIN args THEN args.expr.s ELSE ""

\* _execute_tool without its except clause
_execute_toolUncaught(plan) ==
    IF plan.tool \notin tools
    THEN Raise("ToolExecutionError", "Unknown tool: " \o plan.tool)
    ELSE IF plan.tool = CALCULATOR /\ _needs_weather_data(ExprOf(plan.args))
    THEN _handle_weather_calculation(plan.args.expr.s)
    ELSE run(plan.tool, plan.args)

_execute_tool(plan) ==
    IF plan.tool \notin tools
    THEN Raise("ToolExecutionError", "Unknown tool: " \o plan.tool)
    ELSE Reraise(IF /\ plan.tool = CALCULATOR
                    /\ _needs_weather_data(ExprOf(plan.args))
                 THEN _handle_weather_calculation(plan.args.expr.s)
                 ELSE run(plan.tool, plan.args),
                 "ToolExecutionError",
                 "Tool " \o FormatTool(plan.tool) \o " failed: ")

\* the branch of process_query for an empty query
EmptyQueryResponse ==
    AgentResponse("Please provide a question or query.", None, FALSE,
                  PyStr("Empty query"))

\* FailureResponse with the exception's text put into the result
FailureResponseLeaking(e) ==
    AgentResponse("I encountered an error while processing your request: " \o e.msg,
                  None, FALSE, PyStr(e.msg))

\* the except clauses of process_query: the response for the exception e
FailureResponse(e) ==
    IF e.exc = "PlanningError"
    THEN AgentResponse("I couldn't understand your question. Please rephrase it.",
                       None, FALSE, PyStr(e.msg))
    ELSE IF e.exc = "ToolExecutionError"
    THEN AgentResponse("I encountered an error while processing your request.",
                       None, FALSE, PyStr(e.msg))
    ELSE AgentResponse("An unexpected error occurred.", None, FALSE, PyStr(e.msg))

\* Handled without the except clauses
HandledEscapes(outcome) == outcome

\* the try statement of process_query: what process_query does with the
\* outcome of its try block
Handled(outcome) ==
    IF outcome.ok THEN outcome ELSE Return(FailureResponse(outcome))

\* ExecutePlan with a response that does not name the tool
ExecutePlanNoTool(plan) ==
    Then(_execute_tool(plan),
         LAMBDA result : Return(AgentResponse(result, None, TRUE, None)))

\* the try block of process_query once the plan is made
ExecutePlan(plan) ==
    Then(_execute_tool(plan),
         LAMBDA result : Return(AgentResponse(result, PyStr(plan.tool), TRUE, None)))

\* IsEmptyQuery without the test of the stripped query
IsEmptyQueryUnstripped(q) == q = ""

\* not query or not query.strip()
IsEmptyQuery(q) == q = "" \/ strip(q) = ""

\* Agent.answer given the outcome of process_query
AnswerOf(processed) ==
    IF processed.ok THEN Return(PyStr(processed.val.result))
    ELSE Return(PyStr("Sorry, I encountered an error: " \o processed.msg))

(***************************************************************************)
(* Arithmetic terms: the mathematics safe_eval is measured against.  A     *)
(* term is a tree of numeric literals, the unary minus and the six binary  *)
(* operators; Value is its value as an exact fraction, and Render writes   *)
(* it with the parentheses that the standard precedence of the operators   *)
(* requires and no others: the power binds tighter than the unary minus,   *)
(* that tighter than product, quotient and remainder, those tighter than   *)
(* sum and difference; the power groups to the right, the others to the    *)
(* left.                                                                   *)
(***************************************************************************)
\* the largest exponent of a power among the terms
MaxExponent == 9

Literal(s, n, d) == [k |-> "lit", s |-> s, n |-> n, d |-> d]
Neg(a) == [k |-> "neg", a |-> a]
Bin(op, a, b) == [k |-> "bin", op |-> op, a |-> a, b |-> b]

TermLiterals == {Literal("2", 2, 1), Literal("3", 3, 1), Literal("0.5", 1, 2)}
TermOperators == {"+", "-", "*", "/", "%", "**"}

\* the terms with at most one operator
SmallTerms ==
    TermLiterals
      \cup {Neg(a) : a \in TermLiterals}
      \cup {Bin(op, a, b) : op \in TermOperators, a \in TermLiterals, b \in TermLiterals}

\* the terms of the repository's tests
ExampleTerms ==
    {Bin("+", Literal("2", 2, 1), Bin("*", Literal("3", 3, 1), Literal("4", 4, 1))),
     Bin("*", Bin("+", Literal("2", 2, 1), Literal("3", 3, 1)), Literal("4", 4, 1)),
     Bin("*", Bin("+", Literal("10", 10, 1), Literal("5", 5, 1)), Literal("2", 2, 1)),
     Bin("/", Literal("100", 100, 1), Bin("+", Literal("5", 5, 1), Literal("5", 5, 1))),
     Bin("/", Literal("15", 15, 1), Literal("3", 3, 1)),
     Bin("%", Literal("17", 17, 1), Literal("5", 5, 1)),
     Bin("+", Neg(Literal("10", 10, 1)), Literal("3", 3, 1)),
     Bin("+", Literal("5", 5, 1), Neg(Literal("3", 3, 1))),
     Bin("+", Literal("3.5", 7, 2), Literal("2.1", 21, 10)),
     Bin("/", Literal("10.0", 10, 1), Literal("4.0", 4, 1)),
     Bin("*", Literal("2.5", 5, 2), Literal("2", 2, 1))}

\* the terms with at most two operators, and those of the tests
Terms ==
    ExampleTerms
      \cup SmallTerms
      \cup {Neg(a) : a \in SmallTerms}
      \cup {Bin(op, a, b) : op \in TermOperators, a \in SmallTerms, b \in TermLiterals}
      \cup {Bin(op, a, b) : op \in TermOperators, a \in TermLiterals, b \in SmallTerms}

\* the fraction n/d in lowest terms, or no value
Undefined == [def |-> FALSE]
Ratio(n, d) ==
    [def |-> TRUE,
     n |-> (IF d < 0 THEN -1 ELSE 1) * (n \div GCD(Abs(n), Abs(d))),
     d |-> (IF d < 0 THEN -1 ELSE 1) * (d \div GCD(Abs(n), Abs(d)))]

\* x to the power of the integer e
RatioPower(x, e) ==
    IF e >= 0 THEN Ratio(Power(x.n, e), Power(x.d, e))
    ELSE IF x.n = 0 THEN Undefined
    ELSE Ratio(Power(x.d, -e), Power(x.n, -e))

\* the value of a binary operator on two values: a quotient or a remainder
\* by zero has none, the remainder is that of the floored quotient, and a
\* power is considered for whole exponents up to MaxExponent
ValueOf(op, x, y) ==
    IF ~x.def \/ ~y.def THEN Undefined
    ELSE CASE op = "+" -> Ratio(x.n * y.d + y.n * x.d, x.d * y.d)
           [] op = "-" -> Ratio(x.n * y.d - y.n * x.d, x.d * y.d)
           [] op = "*" -> Ratio(x.n * y.n, x.d * y.d)
           [] op = "/" -> IF y.n = 0 THEN Undefined ELSE Ratio(x.n * y.d, x.d * y.n)
           [] op = "%" ->
                IF y.n = 0 THEN Undefined
                ELSE Ratio(x.n * y.d - FloorDiv(x.n * y.d, x.d * y.n) * y.n * x.d,
                           x.d * y.d)
           [] op = "**" ->
                IF y.d # 1 \/ Abs(y.n) > MaxExponent THEN Undefined
                ELSE RatioPower(x, y.n)

Negated(x) == IF x.def THEN Ratio(-x.n, x.d) ELSE Undefined

RECURSIVE Value(_)
Value(t) ==
    CASE t.k = "lit" -> Ratio(t.n, t.d)
      [] t.k = "neg" -> Negated(Value(t.a))
      [] t.k = "bin" -> ValueOf(t.op, Value(t.a), Value(t.b))

\* how tightly the operator at the root of a term binds
Precedence(t) ==
    CASE t.k = "lit" -> 4
      [] t.k = "neg" -> 2
      [] t.k = "bin" -> CASE t.op = "**" -> 3
                          [] t.op \in {"*", "/", "%"} -> 1
                          [] t.op \in {"+", "-"} -> 0

Parenthesized(text, needed) == IF needed THEN "(" \o text \o ")" ELSE text

RECURSIVE Render(_)
Render(t) ==
    CASE t.k = "lit" -> t.s
      [] t.k = "neg" -> "-" \o Parenthesized(Render(t.a), Precedence(t.a) < 2)
      [] t.k = "bin" ->
           Parenthesized(Render(t.a),
                         \/ Precedence(t.a) < Precedence(t)
                         \/ Precedence(t.a) = Precedence(t) /\ t.op = "**")
             \o " " \o t.op \o " "
             \o Parenthesized(Render(t.b),
                              \/ Precedence(t.b) < Precedence(t)
                              \/ Precedence(t.b) = Precedence(t) /\ t.op # "**")

\* the terms that have a value, written out, each with its value
Rendered == {<<Render(t), Value(t)>> : t \in {u \in Terms : Value(u).def}}

(***************************************************************************)
(* The inputs of the model.                                                *)
(***************************************************************************)
\* a request for each tool, and what a user may add to it
QueryHeads ==
    {"Convert 10 USD to EUR", "Convert 50 F to C", "What is 2 + 2",
     "What is 20% of 50", "Translate 'hello' from English to Spanish",
     "What is the weather in London", "Who is Alan Turing", "Tell me a joke"}
QueryTails ==
    {"?", " please", " and add 5", " - thanks", " in 3 words",
     " and the temperature in Paris", " then convert 5 km to mi",
     " and translate it to French"}

\* queries the repository's tests and README use, and variations of them
Queries ==
    {"", " ", "   ", "\t",
     "What is 12.5% of 243?", "What is 2 + 2?", "What is 15 / 3?",
     "What is 10 divided by zero?", "What is 1 / 0?", "What is 5 plus 3?",
     "Add 10 to 5", "add 2.5 to the average of 10 and 20",
     "Add 10 to the average temperature in Paris and London right now.",
     "Add 10 to the average temperature in Paris and London",
     "add 2.5 to the average temperature in paris and london",
     "What is the average temperature in Paris and London?",
     "Convert 10 USD to EUR", "convert 10 usd to eur", "Convert 50 F to C",
     "Convert 100 C to F", "Convert 2.5 km to mi", "Convert 10 xyz to abc",
     "Convert 10 USD to EUR and add 5", "Please convert 10 USD to EUR - thanks",
     "convert 5 paddles to eur", "Convert USD to EUR", "10 km to mi",
     "Translate 'hello' from English to Spanish",
     "Translate 'Good Morning' from English to French",
     "Translate hello to French", "translate thank you into german",
     "Translate 'cat' from English to Klingon",
     "What is the weather in Paris?", "What's the temperature in Tokyo?",
     "What is the weather in New York?", "weather in Atlantis",
     "Summarize today's weather in Paris in 3 words",
     "Summarize the weather in Dhaka in 2 words", "Summarize the news",
     "Who is Ada Lovelace?", "Who is Alan Turing?", "who is Grace Hopper",
     "Tell me about Alan Turing", "What is the capital of France?",
     "Tell me a story", "Hi", "!!!@@@###", "xyzzy",
     "What is 10 / 4?", "What is 8 / 2?", "15 / 3", "Calculate 7 / 2",
     "Add 3 to the average temperature in Paris and London",
     "add 0.5 to the average temperature in paris and london",
     "Add 10.5 to the average temperature in Paris and London right now.",
     "Convert 32 F to C", "Convert 0 C to F", "Convert 1 km to m",
     "Convert 3 USD to EUR",
     "Translate \"How are you?\" from English to German",
     "Translate \"Hello\" to French", "temperature in New York",
     "What is the temperature in New York City?", "weather in London?",
     "weather in new york, please", "weather in Paris",
     "Add 5 to the temperature in Paris and London",
     "What is the average temperature in Paris and London plus 2",
     "Add 4 to the average of 1 and 2 and 3", "What is the average of 10 and 20?",
     "add the average temperature in paris and london to 5",
     "Convert", "convert this please", "  CONVERT it", "Converting my notes",
     "convert 5", "Convert 5 + 5", "Can you convert 10 USD to EUR?"}
      \cup {h \o t : h \in QueryHeads, t \in QueryTails}

\* the operands and the operators the expressions of the model are built of
Operands == {"2", "0", "3.5", "x", "'a'", "True", "None", "f(1)", "a.b", "(1, 2)"}
BinarySymbols == {"+", "-", "*", "/", "%", "**", "//", "@", "<<", ">>", "&",
                  "|", "^", "<", "==", "="}
UnarySymbols == {"-", "+", "~"}

\* the expressions safe_eval is called with: an operand, a unary operator on
\* an operand, a binary operator on two operands (but for the powers with a
\* fractional exponent, whose value has no representation here), the
\* expressions of the repository's tests, and the arithmetic terms written out
Expressions ==
    Operands
      \cup {u \o a : u \in UnarySymbols, a \in Operands}
      \cup ({a \o " " \o o \o " " \o b : a \in Operands, o \in BinarySymbols,
                                           b \in Operands}
              \ {a \o " ** 3.5" : a \in Operands})
      \cup {"2 + 3 * 4", "(2 + 3) * 4", "10 / 2 - 3", "-(2 + 3)", "2 ** 3 ** 2",
            "  2 + 2  ", "import os", "2 + ", "2 ++ 3", "eval('2+2')",
            "__import__('os').system('ls')", "1 + x * 2", "(1 < 2) + 1",
            "2 * (3 & 1)", "-'a'", "1 / (2 - 2)", "5 % (1 - 1)", "",
            "'abc'", "'a' + 'b'", "True + 1", "2 + 1 / 0", "2 * (3 % 0)",
            "-(1 / 0)", "2 / 0.0", "3.5 % (2 - 2)", "(1 / 0) / 0",
            "'%d' % 0", "'%s' % (2 - 2)", "'%d' % 'a'", "'%d%s' % 0",
            "2 + 3 * 4 - 1", "2 * 3 + 4", "10 - 4 - 3", "8 / 4 / 2",
            "-2 ** 2", "2 * (3 + 4) * 5", "7 % 4 * 2", "15 / 3", "1 + 2 * 3 ** 2"}
      \cup {p[1] : p \in Rendered}

\* the keyword arguments run is called with: each required key of the tool
\* absent, a string or no string, and a keyword no tool knows
ArgumentValues ==
    [expr |-> {PyStr("2 + 2"), PyStr("1 / 0"), PyInt(5), None},
     city |-> {PyStr("Paris"), PyStr("Atlantis"), PyInt(5), None},
     query |-> {PyStr("Ada Lovelace"), PyStr("Convert 10 USD to EUR"), PyInt(5), None},
     text |-> {PyStr("hello"), PyInt(5)},
     from_lang |-> {PyStr("english"), None},
     to_lang |-> {PyStr("spanish"), PyStr("xx"), PyInt(5)},
     verbose |-> {PyBool(TRUE)}]

RunArguments(tool) ==
    UNION {{args \in [K -> UNION {ArgumentValues[k] : k \in K}] :
              \A k \in K : args[k] \in ArgumentValues[k]} :
           K \in SUBSET ({required_args[tool][i] : i \in 1..Len(required_args[tool])}
                           \cup {"verbose"})}

\* a query for each stage of the planner, queries two stages accept and a
\* query no stage accepts
StageQueries ==
    {"What is 20% of 50", "What is 2 + 2?", "Convert 10 USD to EUR",
     "Translate 'hello' from English to Spanish", "What is the weather in London",
     "Summarize the news", "Who is Alan Turing?",
     "Add 10 to the average temperature in Paris and London",
     "What's the temperature in Tokyo?", "Tell me a joke", ""}

\* the arguments main is started with: none, each query as one argument, and
\* queries the shell has split into words
CommandLines ==
    {<<>>, <<"", "">>, <<" ", "">>, <<"What", "is", "2", "+", "2?">>,
     <<"What is", "1 / 0?">>, <<"Who", "is", "Ada Lovelace?">>,
     <<"Convert", "10", "xyz", "to", "abc">>}
      \cup {<<q>> : q \in Queries}

\* what add_entry and add_translation are called with
NewEntries == {<<"Grace Hopper", "Grace Hopper was a computer scientist.">>}
NewTranslations == {<<"Hello", "en", "es", "buenas">>,
                    <<"cat", "english", "french", "chat">>}

\* the most entries the knowledge base grows to
MaxEntries == 3

\* the paths a KnowledgeBaseTool is constructed on: the default, which has a
\* directory part, and a file name alone
KbPaths == {"data/kb.json", "kb.json"}

\* entries add_entry is called with before the knowledge base is saved: a
\* name that the lookups of an entry already held match as well, text that
\* JSON writes with escapes, and the empty name, which every lookup matches
EntriesToSave ==
    {<<"Ada", "a \"quoted\" word, a back\\slash, a tab\tand a line\nbreak">>,
     <<"", "{\"entries\": []}">>}

(***************************************************************************)
(* The state machine: one call of the public interface at a time, run to   *)
(* its return; between calls the tables of the tools can be extended.      *)
(***************************************************************************)
\* the variables of a call, before any call
NoCall ==
    /\ entry = ""
    /\ argv = <<>>
    /\ stdout = <<>>
    /\ query = ""
    /\ tool_call = None
    /\ pc = "idle"
    /\ stage = 1
    /\ consulted = <<>>
    /\ planned = None
    /\ calls = <<>>
    /\ response = None
    /\ returned = None

Init ==
    /\ kb_path = "data/kb.json"
    /\ kb_files = [path \in KbPaths |-> None]
    /\ kb_data = _load_knowledge_base(kb_files[kb_path])
    /\ translations = InitialTranslations
    /\ patterns = PatternKeys
    /\ NoCall

\* QueryPlanner.plan(q) is called
CallPlan(q) ==
    /\ pc = "idle"
    /\ entry' = "plan"
    /\ query' = q
    /\ pc' = "plan"
    /\ UNCHANGED <<tool_call, kb_data, translations, kb_path, kb_files, patterns, argv, stdout, stage, consulted, planned, calls,
                   response, returned>>

\* Agent.process_query(q) is called
CallProcessQuery(q) ==
    /\ pc = "idle"
    /\ entry' = "process_query"
    /\ query' = q
    /\ pc' = "process_query"
    /\ UNCHANGED <<tool_call, kb_data, translations, kb_path, kb_files, patterns, argv, stdout, stage, consulted, planned, calls,
                   response, returned>>

\* Agent.answer(q) is called, which calls process_query(q)
CallAnswer(q) ==
    /\ pc = "idle"
    /\ entry' = "answer"
    /\ query' = q
    /\ pc' = "process_query"
    /\ UNCHANGED <<tool_call, kb_data, translations, kb_path, kb_files, patterns, argv, stdout, stage, consulted, planned, calls,
                   response, returned>>

\* safe_eval(e) is called
CallSafeEval(e) ==
    /\ pc = "idle"
    /\ entry' = "safe_eval"
    /\ query' = e
    /\ pc' = "safe_eval"
    /\ UNCHANGED <<tool_call, kb_data, translations, kb_path, kb_files, patterns, argv, stdout, stage, consulted, planned, calls,
                   response, returned>>

\* ToolPlan(tool=tool, args=args) is called
CallToolPlan(tool, args) ==
    /\ pc = "idle"
    /\ entry' = "ToolPlan"
    /\ tool_call' = [tool |-> tool, args |-> args]
    /\ pc' = "construct"
    /\ UNCHANGED <<kb_data, translations, kb_path, kb_files, patterns, argv, stdout, query, stage, consulted, planned, calls,
                   response, returned>>

\* the construction: the fields are validated and the plan exists, or not
Construct ==
    /\ pc = "construct"
    /\ returned' = ToolPlan(tool_call.tool, tool_call.args)
    /\ pc' = "done"
    /\ UNCHANGED <<kb_data, translations, kb_path, kb_files, patterns, argv, stdout, entry, query, tool_call, stage, consulted,
                   planned, calls, response>>

\* tool.run(kwargs) is called
CallRun(tool, args) ==
    /\ pc = "idle"
    /\ entry' = "run"
    /\ tool_call' = [tool |-> tool, args |-> args]
    /\ pc' = "run_validate"
    /\ UNCHANGED <<kb_data, translations, kb_path, kb_files, patterns, argv, stdout, query, stage, consulted, planned, calls,
                   response, returned>>

\* BaseTool.run: self.validate_args(kwargs); its ValidationError leaves run
RunValidate ==
    /\ pc = "run_validate"
    /\ calls' = Append(calls, "validate_args")
    /\ IF ValidateArgs(tool_call.tool, tool_call.args).ok
       THEN pc' = "run_execute" /\ UNCHANGED returned
       ELSE pc' = "done" /\ returned' = ValidateArgs(tool_call.tool, tool_call.args)
    /\ UNCHANGED <<kb_data, translations, kb_path, kb_files, patterns, argv, stdout, entry, query, tool_call, stage, consulted,
                   planned, response>>

\* BaseTool.run: return self.execute(kwargs)
RunExecute ==
    /\ pc = "run_execute"
    /\ calls' = Append(calls, "execute")
    /\ returned' = Execute(tool_call.tool, tool_call.args)
    /\ pc' = "done"
    /\ UNCHANGED <<kb_data, translations, kb_path, kb_files, patterns, argv, stdout, entry, query, tool_call, stage, consulted,
                   planned, response>>

\* process_query: the test for an empty query, then the call of the planner
CheckQuery ==
    /\ pc = "process_query"
    /\ IF IsEmptyQuery(query)
       THEN /\ response' = Return(EmptyQueryResponse)
            /\ pc' = "respond"
            /\ UNCHANGED calls
       ELSE /\ pc' = "plan"
            /\ calls' = Append(calls, "plan")
            /\ UNCHANGED response
    /\ UNCHANGED <<tool_call, kb_data, translations, kb_path, kb_files, patterns, argv, stdout, entry, query, stage, consulted,
                   planned, returned>>

\* QueryPlanner.plan ends with outcome: to its caller, or into the rest of
\* the try block of process_query
PlanEnds(outcome) ==
    /\ planned' = outcome
    /\ IF entry = "plan"
       THEN /\ returned' = outcome
            /\ pc' = "done"
            /\ UNCHANGED response
       ELSE IF outcome.ok
       THEN /\ pc' = "execute"
            /\ UNCHANGED <<response, returned>>
       ELSE /\ response' = Handled(outcome)
            /\ pc' = "respond"
            /\ UNCHANGED returned

\* PlanStage without the except clause of the loop: the exception of a
\* planner ends plan
PlanStagePropagating ==
    /\ pc = "plan"
    /\ stage <= Len(planners)
    /\ consulted' = Append(consulted, planners[stage])
    /\ Let(CallStage(patterns, planners[stage], normalize_text(query), strip(query)),
           LAMBDA plan :
               IF ~plan.ok \/ ~IsNone(plan.val)
               THEN PlanEnds(plan) /\ UNCHANGED stage
               ELSE /\ stage' = stage + 1
                    /\ UNCHANGED <<pc, planned, response, returned>>)
    /\ UNCHANGED <<tool_call, kb_data, translations, kb_path, kb_files, patterns, argv,
                   stdout, entry, query, calls>>

\* one round of the loop of QueryPlanner.plan: a planner that returns a plan
\* ends plan; one that returns None or raises leaves the turn to the next
PlanStage ==
    /\ pc = "plan"
    /\ stage <= Len(planners)
    /\ consulted' = Append(consulted, planners[stage])
    /\ Let(CallStage(patterns, planners[stage], normalize_text(query), strip(query)),
           LAMBDA plan :
               IF plan.ok /\ ~IsNone(plan.val)
               THEN PlanEnds(plan) /\ UNCHANGED stage
               ELSE /\ stage' = stage + 1
                    /\ UNCHANGED <<pc, planned, response, returned>>)
    /\ UNCHANGED <<tool_call, kb_data, translations, kb_path, kb_files, patterns, argv, stdout, entry, query, calls>>

\* PlanFallback with the query as it was given
PlanFallbackUntrimmed ==
    /\ pc = "plan"
    /\ stage > Len(planners)
    /\ PlanEnds(FallbackPlan(query))
    /\ UNCHANGED <<tool_call, kb_data, translations, kb_path, kb_files, patterns, argv, stdout, entry, query, stage,
                   consulted, calls>>

\* PlanFallback with a planner that has no fallback: the query that no
\* planner takes ends plan with a PlanningError
PlanFallbackRaising ==
    /\ pc = "plan"
    /\ stage > Len(planners)
    /\ PlanEnds(Raise("PlanningError", "No planner could handle the query"))
    /\ UNCHANGED <<tool_call, kb_data, translations, kb_path, kb_files, patterns, argv,
                   stdout, entry, query, stage, consulted, calls>>

\* QueryPlanner.plan after its loop
PlanFallback ==
    /\ pc = "plan"
    /\ stage > Len(planners)
    /\ PlanEnds(FallbackPlan(strip(query)))
    /\ UNCHANGED <<tool_call, kb_data, translations, kb_path, kb_files, patterns, argv, stdout, entry, query, stage,
                   consulted, calls>>

\* ExecuteTool with a process_query that keeps the queries it has answered
\* in the knowledge base
ExecuteToolRecording ==
    /\ pc = "execute"
    /\ calls' = Append(calls, planned.val.tool)
    /\ response' = Handled(ExecutePlan(planned.val))
    /\ kb_data' = IF Len(kb_data) < MaxEntries
                  THEN Append(kb_data, [name |-> query, summary |-> query])
                  ELSE kb_data
    /\ pc' = "respond"
    /\ UNCHANGED <<tool_call, translations, kb_path, kb_files, patterns, argv, stdout, entry, query, stage, consulted,
                   planned, returned>>

\* process_query: the tool of the plan is executed and the response built
ExecuteTool ==
    /\ pc = "execute"
    /\ calls' = Append(calls, planned.val.tool)
    /\ response' = Handled(ExecutePlan(planned.val))
    /\ pc' = "respond"
    /\ UNCHANGED <<tool_call, kb_data, translations, kb_path, kb_files, patterns, argv, stdout, entry, query, stage, consulted,
                   planned, returned>>

\* process_query ends: to its caller, or to answer, which returns the result
\* to its caller or to main
ReturnResponse ==
    /\ pc = "respond"
    /\ returned' = IF entry \in {"answer", "main"} THEN AnswerOf(response)
                   ELSE response
    /\ pc' = IF entry = "main" THEN "print" ELSE "done"
    /\ UNCHANGED <<tool_call, kb_data, translations, kb_path, kb_files, patterns, argv, stdout, entry, query, stage, consulted,
                   planned, calls, response>>

\* main() is called with sys.argv[1:] = args: without arguments it prints
\* the usage and calls sys.exit(1); otherwise it calls answer on the
\* arguments joined by spaces
CallMain(args) ==
    /\ pc = "idle"
    /\ entry' = "main"
    /\ argv' = args
    /\ IF Len(args) + 1 < 2
       THEN /\ stdout' = <<"Usage: python main.py \"your question here\"">>
            /\ returned' = Raise("SystemExit", "1")
            /\ pc' = "done"
            /\ UNCHANGED query
       ELSE /\ query' = join(" ", args)
            /\ pc' = "process_query"
            /\ UNCHANGED <<stdout, returned>>
    /\ UNCHANGED <<tool_call, kb_data, translations, kb_path, kb_files, patterns, stage,
                   consulted, planned, calls, response>>

\* PrintResult with a main that reports a failed query to the shell
PrintResultFailing ==
    /\ pc = "print"
    /\ stdout' = Append(stdout, returned.val.s)
    /\ returned' = IF response.val.success THEN Return(None)
                   ELSE Raise("SystemExit", "1")
    /\ pc' = "done"
    /\ UNCHANGED <<tool_call, kb_data, translations, kb_path, kb_files, patterns, entry, argv,
                   query, stage, consulted, planned, calls, response>>

\* main: print(result), and main returns
PrintResult ==
    /\ pc = "print"
    /\ stdout' = Append(stdout, returned.val.s)
    /\ returned' = Return(None)
    /\ pc' = "done"
    /\ UNCHANGED <<tool_call, kb_data, translations, kb_path, kb_files, patterns, entry, argv,
                   query, stage, consulted, planned, calls, response>>

\* the exit status of the interpreter that ran main: 0 when main returned,
\* the code of SystemExit, 1 for any other exception
ExitStatus(outcome) ==
    IF outcome.ok THEN 0
    ELSE IF outcome.exc = "SystemExit" THEN DigitsValue(outcome.msg, 0)
    ELSE 1

\* safe_eval runs
Evaluate ==
    /\ pc = "safe_eval"
    /\ returned' = safe_eval(query)
    /\ pc' = "done"
    /\ UNCHANGED <<tool_call, kb_data, translations, kb_path, kb_files, patterns, argv, stdout, entry, query, stage, consulted,
                   planned, calls, response>>

\* the caller has the outcome; the next call can be made
Finish ==
    /\ pc = "done"
    /\ entry' = ""
    /\ argv' = <<>>
    /\ stdout' = <<>>
    /\ query' = ""
    /\ tool_call' = None
    /\ pc' = "idle"
    /\ stage' = 1
    /\ consulted' = <<>>
    /\ planned' = None
    /\ calls' = <<>>
    /\ response' = None
    /\ returned' = None
    /\ UNCHANGED <<kb_data, translations, kb_path, kb_files, patterns>>

\* kb.add_entry(name, summary)
AddEntry(name, summary) ==
    /\ pc = "idle"
    /\ Len(kb_data) < MaxEntries
    /\ kb_data' = add_entry(kb_data, name, summary)
    /\ UNCHANGED <<tool_call, translations, kb_path, kb_files, patterns, argv, stdout, entry, query, pc, stage, consulted, planned,
                   calls, response, returned>>

\* translator.add_translation(text, from_lang, to_lang, translation)
AddTranslation(text, from_lang, to_lang, translation) ==
    /\ pc = "idle"
    /\ translations' = add_translation(translations, text, from_lang, to_lang,
                                       translation)
    /\ translations' # translations
    /\ UNCHANGED <<tool_call, kb_data, kb_path, kb_files, patterns, argv, stdout, entry, query, pc, stage, consulted, planned, calls,
                   response, returned>>

\* KnowledgeBaseTool(path) is constructed, at once after a call has returned or
\* later: the tool holds what _load_knowledge_base reads from the file at path
NewKnowledgeBase(path) ==
    /\ pc \in {"idle", "done"}
    /\ entry' = "KnowledgeBaseTool"
    /\ kb_path' = path
    /\ kb_data' = _load_knowledge_base(kb_files[path])
    /\ returned' = Return(None)
    /\ pc' = "done"
    /\ query' = ""
    /\ tool_call' = None
    /\ stage' = 1
    /\ consulted' = <<>>
    /\ planned' = None
    /\ calls' = <<>>
    /\ response' = None
    /\ argv' = <<>>
    /\ stdout' = <<>>
    /\ UNCHANGED <<kb_files, patterns, translations>>

\* kb.save_knowledge_base() is called
CallSave ==
    /\ pc = "idle"
    /\ entry' = "save_knowledge_base"
    /\ pc' = "save"
    /\ UNCHANGED <<tool_call, kb_data, translations, kb_path, kb_files, patterns, argv, stdout, query, stage,
                   consulted, planned, calls, response, returned>>

\* save_knowledge_base runs: the file at kb_path holds the text written, or
\* the ToolExecutionError reaches the caller and no file was opened
SaveKnowledgeBase ==
    /\ pc = "save"
    /\ Let(save_knowledge_base(kb_path, kb_data), LAMBDA saved :
           IF saved.ok
           THEN /\ kb_files' = [kb_files EXCEPT ![kb_path] = saved.val]
                /\ returned' = Return(None)
           ELSE /\ returned' = saved
                /\ UNCHANGED kb_files)
    /\ pc' = "done"
    /\ UNCHANGED <<tool_call, kb_data, translations, kb_path, patterns, entry, argv,
                   stdout, query, stage, consulted, planned, calls, response>>

\* del planner.patterns[key]: the dict of the planner loses an entry
RemovePattern(key) ==
    /\ pc = "idle"
    /\ key \in patterns
    /\ patterns' = patterns \ {key}
    /\ UNCHANGED <<tool_call, kb_data, translations, kb_path, kb_files, argv, stdout,
                   entry, query, pc, stage, consulted, planned, calls, response,
                   returned>>

\* the agent and its planner
Next ==
    \/ \E q \in Queries : CallPlan(q)
    \/ \E q \in Queries : CallProcessQuery(q)
    \/ \E q \in Queries : CallAnswer(q)
    \/ CheckQuery
    \/ PlanStage
    \/ PlanFallback
    \/ ExecuteTool
    \/ ReturnResponse
    \/ \E tool \in tools : \E args \in RunArguments(tool) : CallRun(tool, args)
    \/ RunValidate
    \/ RunExecute
    \/ \E tool \in tools : \E args \in RunArguments(tool) : CallToolPlan(tool, args)
    \/ Construct
    \/ Finish
    \/ \E e \in NewEntries : AddEntry(e[1], e[2])
    \/ \E t \in NewTranslations : AddTranslation(t[1], t[2], t[3], t[4])

Spec == Init /\ [][Next]_vars

\* the evaluator of expressions
NextEval ==
    \/ \E e \in Expressions : CallSafeEval(e)
    \/ Evaluate
    \/ Finish

SpecEval == Init /\ [][NextEval]_vars

\* sequences of queries, and nothing else
NextQueries ==
    \/ \E q \in Queries : CallPlan(q)
    \/ \E q \in Queries : CallProcessQuery(q)
    \/ \E q \in Queries : CallAnswer(q)
    \/ CheckQuery
    \/ PlanStage
    \/ PlanFallback
    \/ ExecuteTool
    \/ ReturnResponse
    \/ Finish

SpecQueries == Init /\ [][NextQueries]_vars

\* the planner, with a dict of patterns that loses entries
NextPlanner ==
    \/ \E key \in PatternKeys : RemovePattern(key)
    \/ \E q \in StageQueries : CallPlan(q)
    \/ PlanStage
    \/ PlanFallback
    \/ Finish

SpecPlanner == Init /\ [][NextPlanner]_vars

\* the command line
NextMain ==
    \/ \E args \in CommandLines : CallMain(args)
    \/ CheckQuery
    \/ PlanStage
    \/ PlanFallback
    \/ ExecuteTool
    \/ ReturnResponse
    \/ PrintResult
    \/ Finish

SpecMain == Init /\ [][NextMain]_vars

\* the knowledge base and its file
NextKb ==
    \/ \E e \in EntriesToSave : AddEntry(e[1], e[2])
    \/ CallSave
    \/ SaveKnowledgeBase
    \/ \E path \in KbPaths : NewKnowledgeBase(path)
    \/ \E args \in RunArguments(KNOWLEDGE_BASE) : CallRun(KNOWLEDGE_BASE, args)
    \/ RunValidate
    \/ RunExecute
    \/ Finish

SpecKb == Init /\ [][NextKb]_vars

(***************************************************************************)
(* The properties of the agent, stated on the states of Spec.              *)
(***************************************************************************)
\* C1: for every query, process_query returns an AgentResponse and answer
\* returns a string: no exception reaches the caller
C1_NothingEscapes ==
    pc = "done" =>
        /\ entry = "process_query" =>
               /\ returned.ok
               /\ DOMAIN returned.val = {"result", "tool_used", "success", "error"}
        /\ entry = "answer" => returned.ok /\ returned.val.t = "str"

\* answer has returned its sentence for a query whose tool raised
C1_Witness ==
    /\ pc = "done"
    /\ entry = "answer"
    /\ query = "Convert 10 xyz to abc"
    /\ returned = Return(PyStr("I encountered an error while processing your request."))

C5_ConversionBeforeCalculation ==
    (~IsNone(planned) /\ pattern_conversion(normalize_text(query)).matched)
        => planned = Return([tool |-> UNIT_CONVERTER,
                             args |-> [query |-> PyStr(strip(query))]])

\* C6: process_query on an empty or whitespace-only query returns at once
\* with success false, the error "Empty query", the fixed result and no
\* tool_used; the planner is not called and no tool is invoked
C6_EmptyQuery ==
    (entry \in {"process_query", "answer"}
       /\ \A i \in 1..Len(query) : Ch(query, i) \in {" ", "\t"})
    => /\ pc \in {"process_query", "respond", "done"}
       /\ calls = <<>>
       /\ consulted = <<>>
       /\ IsNone(planned)
       /\ pc \in {"respond", "done"}
            => response = Return([result |-> "Please provide a question or query.",
                                  tool_used |-> None,
                                  success |-> FALSE,
                                  error |-> PyStr("Empty query")])

\* process_query has returned for a query of one tab
C6_Witness ==
    /\ pc = "done"
    /\ entry = "process_query"
    /\ query = "\t"
    /\ returned.ok
    /\ returned.val.error = PyStr("Empty query")
    /\ calls = <<>>

\* C7: in every AgentResponse of process_query, success is true exactly when
\* error is None and exactly when tool_used is set; on success tool_used is
\* the tool of the plan and result is the string its invocation returned
C7_ResponseShape ==
    (entry \in {"process_query", "answer"} /\ pc \in {"respond", "done"})
    => /\ response.ok
       /\ Let(response.val, LAMBDA r :
              /\ r.success <=> IsNone(r.error)
              /\ r.success <=> ~IsNone(r.tool_used)
              /\ r.success =>
                    /\ planned.ok
                    /\ r.tool_used = PyStr(planned.val.tool)
                    /\ calls = <<"plan", planned.val.tool>>
                    /\ Return(r.result) = _execute_tool(planned.val))

\* process_query has returned the translator's answer
C7_Witness ==
    /\ pc = "done"
    /\ entry = "process_query"
    /\ query = "Translate 'hello' from English to Spanish"
    /\ returned.val.success
    /\ returned.val.tool_used = PyStr(TRANSLATOR)
    /\ returned.val.result = "hola"
    /\ IsNone(returned.val.error)

\* C8: for a non-empty query, an exception raised while the chosen tool is
\* invoked gives a response with success false, an error that begins with
\* "Tool <id> failed" (the id as the member's value or as the member's name,
\* which is what this Python build formats) and the fixed result
C8_ToolFailureReported ==
    (entry \in {"process_query", "answer"} /\ pc \in {"respond", "done"}
       /\ Len(calls) = 2)
    => LET plan == planned.val
           invoked == IF /\ plan.tool = CALCULATOR
                         /\ _needs_weather_data(ExprOf(plan.args))
                      THEN _handle_weather_calculation(plan.args.expr.s)
                      ELSE run(plan.tool, plan.args)
       IN  ~invoked.ok =>
               /\ response.ok
               /\ ~response.val.success
               /\ response.val.result
                    = "I encountered an error while processing your request."
               /\ \E id \in {plan.tool, "ToolName." \o MemberName[plan.tool]} :
                      startswith(response.val.error.s, "Tool " \o id \o " failed")

\* process_query has returned for the unsupported pair of units
C8_Witness ==
    /\ pc = "done"
    /\ entry = "process_query"
    /\ query = "Convert 10 xyz to abc"
    /\ calls = <<"plan", UNIT_CONVERTER>>
    /\ ~returned.val.success
    /\ returned.val.error
         = PyStr("Tool ToolName.UNIT_CONVERTER failed: "
                   \o "Unit conversion failed: Cannot convert xyz to abc")

\* C9: when process_query returns success false, result is one of the fixed
\* messages and does not hold the text of the exception, which is in error
C9_GenericFailureResult ==
    (entry \in {"process_query", "answer"} /\ pc \in {"respond", "done"}
       /\ response.ok /\ ~response.val.success)
    => /\ response.val.result
            \in {"Please provide a question or query.",
                 "I couldn't understand your question. Please rephrase it.",
                 "I encountered an error while processing your request.",
                 "An unexpected error occurred."}
       /\ ~IsNone(response.val.error)
       /\ response.val.error.s # ""
       /\ ~Contains(response.val.result, response.val.error.s)

\* process_query has returned for a division by zero
C9_Witness ==
    /\ pc = "done"
    /\ entry = "process_query"
    /\ query = "What is 1 / 0?"
    /\ returned.val.result = "I encountered an error while processing your request."
    /\ Contains(returned.val.error.s, "division by zero")

(***************************************************************************)
(* The properties of safe_eval, stated on the states of SpecEval.          *)
(***************************************************************************)
\* whether every node of the tree is a numeric literal, a binary operator
\* among + - * / % ** or the unary minus
RECURSIVE OnlyArithmetic(_)
OnlyArithmetic(node) ==
    CASE node.node = "Constant" -> node.value.t \in {"int", "float"}
      [] node.node = "BinOp" ->
           /\ node.op \in {"Add", "Sub", "Mult", "Div", "Mod", "Pow"}
           /\ OnlyArithmetic(node.left)
           /\ OnlyArithmetic(node.right)
      [] node.node = "UnaryOp" -> node.op = "USub" /\ OnlyArithmetic(node.operand)
      [] OTHER -> FALSE

\* C10: safe_eval raises ValueError for every expression that is no
\* expression at all or whose tree holds a node other than a numeric
\* literal, a binary operator among + - * / % ** or the unary minus
C10_RejectsOtherNodes ==
    (pc = "done" /\ entry = "safe_eval")
    => Let(ast_parse(strip(query)), LAMBDA parsed :
           (~parsed.ok \/ ~OnlyArithmetic(parsed.val))
               => (~returned.ok /\ returned.exc = "ValueError"))

\* C11: whenever safe_eval returns a value, the value is a number (an int or
\* a float): an expression whose leaf is a string, a boolean or None fails,
\* never gives back the string, the boolean or None
C11_ReturnsNumber ==
    (pc = "done" /\ entry = "safe_eval" /\ returned.ok)
        => returned.val.t \in {"int", "float"}

\* whether the tree holds a division or a modulo whose right operand
\* evaluates to zero
RECURSIVE HasZeroDivisor(_)
HasZeroDivisor(node) ==
    CASE node.node = "BinOp" ->
           \/ /\ node.op \in {"Div", "Mod"}
              /\ _eval_node(node.right).ok
              /\ IsNumber(_eval_node(node.right).val)
              /\ _eval_node(node.right).val.n = 0
           \/ HasZeroDivisor(node.left)
           \/ HasZeroDivisor(node.right)
      [] node.node = "UnaryOp" -> HasZeroDivisor(node.operand)
      [] OTHER -> FALSE

\* C12: safe_eval raises ValueError for every expression whose tree holds,
\* anywhere, a division or a modulo whose right operand evaluates to zero;
\* it returns no value for it
C12_ZeroDivisorFails ==
    (pc = "done" /\ entry = "safe_eval")
    => Let(ast_parse(strip(query)), LAMBDA parsed :
           (parsed.ok /\ HasZeroDivisor(parsed.val))
               => (~returned.ok /\ returned.exc = "ValueError"))

\* C13: for every arithmetic term that has a value, safe_eval of the term
\* written with the parentheses the standard precedence requires returns a
\* number equal to the value of the term ('2 + 3 * 4' is 14 and
\* '(2 + 3) * 4' is 20)
C13_CorrectValue ==
    (pc = "done" /\ entry = "safe_eval")
    => \A p \in Rendered :
           query = p[1]
           => /\ returned.ok
              /\ returned.val.t \in {"int", "float"}
              /\ returned.val.n * p[2].d = p[2].n * returned.val.d

C13_Witness ==
    /\ pc = "done"
    /\ entry = "safe_eval"
    /\ <<query, Ratio(20, 1)>> \in Rendered
    /\ query = "(2 + 3) * 4"
    /\ returned = Return(PyInt(20))

\* whether the text is the quotient of two integer literals
IsIntegerQuotient(text) ==
    Let(ast_parse(strip(text)), LAMBDA parsed :
        /\ parsed.ok
        /\ parsed.val.node = "BinOp"
        /\ parsed.val.op = "Div"
        /\ parsed.val.left.node = "Constant"
        /\ parsed.val.left.value.t = "int"
        /\ parsed.val.right.node = "Constant"
        /\ parsed.val.right.value.t = "int")

AddedNumberAt(s, i) ==
    LET p == RunEnd(s, i + 3, SpaceSet)
        e == RunEnd(s, p, DigitSet)
        f == RunEnd(s, e + 1, DigitSet)
    IN  IF LitAt(s, i, "add") /\ p > i + 3 /\ e > p
        THEN IF LitAt(s, e, ".") /\ f > e + 1
             THEN Match(<<SubSeq(s, p, f - 1)>>)
             ELSE Match(<<SubSeq(s, p, e - 1)>>)
        ELSE NoMatch

\* whether the expression is of the idiom "add N to ... average ... paris
\* and london"
IsAddToAverage(expr) ==
    /\ Contains(lower(expr), "paris and london")
    /\ Contains(lower(expr), "add")
    /\ Contains(lower(expr), "average")
    /\ Search(lower(expr), AddedNumberAt).matched

\* C15: for a query of the idiom "add N to ... average ... paris and london"
\* that is planned to the calculator, the result is N plus the average of
\* the temperatures of Paris and London, for every number N written in the
\* query, integer or decimal
C15_AddToAverage ==
    (/\ entry \in {"process_query", "answer"}
     /\ pc \in {"respond", "done"}
     /\ calls = <<"plan", CALCULATOR>>
     /\ IsAddToAverage(planned.val.args.expr.s))
    => /\ response.val.success
       /\ response.val.result
            = str(operator_add(float(Search(lower(planned.val.args.expr.s),
                                            AddedNumberAt).groups[1]),
                               average_temp).val)

\* C16: the unit converter renders every value, a whole one too, in float
\* form with a decimal part, through answer and through unitconv.run:
\* 'Convert 10 USD to EUR' gives '9.0', 'Convert 100 C to F' gives '212.0'
\* and 'Convert 32 F to C' gives '0.0'
C16_WholeValueAsFloat ==
    /\ (/\ entry \in {"process_query", "answer"}
        /\ pc \in {"respond", "done"}
        /\ calls = <<"plan", UNIT_CONVERTER>>
        /\ response.val.success)
          => /\ Contains(response.val.result, ".")
             /\ response.val.result = run(UNIT_CONVERTER, planned.val.args).val
    /\ (pc = "done" /\ entry = "answer" /\ query = "Convert 10 USD to EUR")
          => returned = Return(PyStr("9.0"))
    /\ (pc = "done" /\ entry = "answer" /\ query = "Convert 100 C to F")
          => returned = Return(PyStr("212.0"))
    /\ (pc = "done" /\ entry = "answer" /\ query = "Convert 32 F to C")
          => returned = Return(PyStr("0.0"))

\* whether the keyword arguments hold every key the tool requires, each
\* with a string
HasRequiredStrings(tool, args) ==
    \A i \in 1..Len(required_args[tool]) :
        /\ required_args[tool][i] \in DOMAIN args
        /\ args[required_args[tool][i]].t = "str"

\* C17: run validates before it executes: execute is entered only after
\* validate_args and only on arguments that hold every required key with a
\* string; when a required argument is missing or is no string, run raises
\* ValidationError and execute has not been entered
C17_ValidatesBeforeExecuting ==
    entry = "run"
    => /\ (pc = "run_execute" \/ \E i \in 1..Len(calls) : calls[i] = "execute")
            => /\ calls[1] = "validate_args"
               /\ \A i \in 1..Len(calls) : calls[i] = "execute" => i = 2
               /\ HasRequiredStrings(tool_call.tool, tool_call.args)
       /\ (pc = "done" /\ ~HasRequiredStrings(tool_call.tool, tool_call.args))
            => /\ ~returned.ok
               /\ returned.exc = "ValidationError"
               /\ calls = <<"validate_args">>

\* translator.run(text='hello', from_lang='english') has raised ValidationError
C17_Witness ==
    /\ pc = "done"
    /\ entry = "run"
    /\ tool_call.tool = TRANSLATOR
    /\ DOMAIN tool_call.args = {"text", "from_lang"}
    /\ ~HasRequiredStrings(tool_call.tool, tool_call.args)
    /\ calls = <<"validate_args">>
    /\ returned = Raise("ValidationError", "Translator requires 'to_lang' argument")

\* the keys a tool requires, as a set
RequiredKeys(tool) == {required_args[tool][i] : i \in 1..Len(required_args[tool])}

\* the keys whose absence alone makes the tool's validate_args fail
DemandedKeys(tool) ==
    {k \in DOMAIN ArgumentValues :
        ~ValidateArgs(tool, [j \in DOMAIN ArgumentValues \ {k} |-> PyStr("x")]).ok}

\* C18: the construction of a ToolPlan fails exactly when its args lack a key
\* its tool requires, so every ToolPlan that exists, the planner's too, holds
\* all keys its tool requires; and those are the keys that the tool's own
\* validate_args demands
C18_PlanHoldsRequiredKeys ==
    /\ (entry = "ToolPlan" /\ pc = "done")
          => /\ returned.ok <=> RequiredKeys(tool_call.tool) \subseteq DOMAIN tool_call.args
             /\ returned.ok => returned.val = tool_call
             /\ RequiredKeys(tool_call.tool) = DemandedKeys(tool_call.tool)
    /\ (~IsNone(planned) /\ planned.ok)
          => /\ RequiredKeys(planned.val.tool) \subseteq DOMAIN planned.val.args
             /\ RequiredKeys(planned.val.tool) = DemandedKeys(planned.val.tool)

\* the construction of a translator plan without to_lang has failed
C18_Witness ==
    /\ pc = "done"
    /\ entry = "ToolPlan"
    /\ tool_call.tool = TRANSLATOR
    /\ DOMAIN tool_call.args = {"text", "from_lang", "verbose"}
    /\ ~(RequiredKeys(TRANSLATOR) \subseteq DOMAIN tool_call.args)
    /\ ~returned.ok

RECURSIVE PlanOf(_, _)
PlanOf(q, i) ==
    IF i > Len(planners) THEN FallbackPlan(strip(q))
    ELSE Let(CallPlanner(planners[i], normalize_text(q), strip(q)),
             LAMBDA plan : IF plan.ok /\ ~IsNone(plan.val) THEN plan
                           ELSE PlanOf(q, i + 1))

\* what process_query(q) returns when q is the first query asked
ProcessedAlone(q) ==
    IF IsEmptyQuery(q) THEN Return(EmptyQueryResponse)
    ELSE Handled(Then(PlanOf(q, 1), ExecutePlan))

\* C19: through every sequence of queries the tool tables stay as they were
\* initialised and, between two queries, every field is as before the first
\* query; what plan, process_query and answer return for a query is what
\* they return when the query is the only one asked
C19_Stateless ==
    /\ kb_data = DefaultEntries
    /\ translations = InitialTranslations
    /\ pc = "idle" => NoCall
    /\ (pc = "done" /\ entry = "plan") => returned = PlanOf(query, 1)
    /\ (pc = "done" /\ entry = "process_query") => returned = ProcessedAlone(query)
    /\ (pc = "done" /\ entry = "answer") => returned = AnswerOf(ProcessedAlone(query))

\* answer has returned the knowledge base's entry
C19_Witness ==
    /\ pc = "done"
    /\ entry = "answer"
    /\ query = "Who is Alan Turing?"
    /\ kb_data = DefaultEntries
    /\ returned = AnswerOf(ProcessedAlone(query))
    /\ returned = Return(PyStr(DefaultEntries[2].summary))

(***************************************************************************)
(* The properties of the knowledge base and its file, stated on SpecKb.    *)
(***************************************************************************)
\* the queries the lookups of the properties are made with
LookupQueries ==
    {"Ada Lovelace", "ada", " LOVELACE ", "Turing", "alan turing and ada",
     "Grace Hopper", "", "e"}

\* the entries of the table that the query matches, in the words of
\* KnowledgeBaseTool.execute: the query in the name or the name in the query
MatchingEntries(entries, q) ==
    {i \in 1..Len(entries) :
        \/ Contains(lower(entries[i].name), strip(lower(q)))
        \/ Contains(strip(lower(q)), lower(entries[i].name))}

\* C27: add_entry puts the new entry at the end and leaves the entries held
\* and their order as they were, so a lookup that matched an entry before
\* returns the same summary afterwards, that of the first entry in the order
\* of the table that matches
C27_AppendOnly ==
    [][(pc = "idle" /\ pc' = "idle" /\ kb_data' # kb_data)
       => /\ Len(kb_data') = Len(kb_data) + 1
          /\ SubSeq(kb_data', 1, Len(kb_data)) = kb_data
          /\ \A q \in LookupQueries :
                 MatchingEntries(kb_data, q) # {}
                   => /\ kb_execute(kb_data', [query |-> PyStr(q)])
                           = kb_execute(kb_data, [query |-> PyStr(q)])
                      /\ kb_execute(kb_data', [query |-> PyStr(q)])
                           = Return(kb_data[Least(MatchingEntries(kb_data, q))].summary)
      ]_vars

\* the lookup of Ada Lovelace has returned the summary of the first entry
\* of the table after entries were added that the lookup matches as well
C27_Witness ==
    /\ pc = "done"
    /\ entry = "run"
    /\ tool_call.args = [query |-> PyStr("Ada Lovelace")]
    /\ Len(kb_data) = 3
    /\ kb_data[3].name \in {"Ada", ""}
    /\ MatchingEntries(kb_data, "Ada Lovelace") = {1, 3}
    /\ returned = Return(DefaultEntries[1].summary)

\* C21: after any sequence of add_entry calls, save_knowledge_base followed
\* by the construction of a fresh KnowledgeBaseTool on the same path gives a
\* tool that holds the same entries in the same order
C21_RoundTrip ==
    [][(/\ entry = "save_knowledge_base"
        /\ pc = "done"
        /\ entry' = "KnowledgeBaseTool"
        /\ kb_path' = kb_path)
       => kb_data' = kb_data]_vars

(***************************************************************************)
(* The properties of the command line, stated on SpecMain.                 *)
(***************************************************************************)
\* C22: main exits with a non-zero status only when it is started without a
\* query argument; for every query supplied, one whose processing fails
\* included, it prints the string answer returns and exits with status 0
C22_ExitStatus ==
    (entry = "main" /\ pc = "done") =>
        /\ ExitStatus(returned) # 0 => argv = <<>>
        /\ argv # <<>> =>
              /\ ExitStatus(returned) = 0
              /\ stdout = <<AnswerOf(ProcessedAlone(join(" ", argv))).val.s>>

\* main has printed the sentence for a query whose tool raised, and returned
C22_Witness ==
    /\ entry = "main"
    /\ pc = "done"
    /\ argv = <<"What is", "1 / 0?">>
    /\ ~response.val.success
    /\ stdout = <<"I encountered an error while processing your request.">>
    /\ ExitStatus(returned) = 0

(***************************************************************************)
(* The properties of the planner's arguments, stated on the states of Spec.*)
(***************************************************************************)
\* C23: the text of a Translation plan is the text as the user wrote it, its
\* case preserved, while from_lang and to_lang are in lower case; the plan of
\* Translate "How are you?" from English to German has the text How are you?,
\* from_lang english and to_lang german
C23_TextAsWritten ==
    (pc = "done" /\ entry = "plan" /\ returned.ok
       /\ returned.val.tool = TRANSLATOR)
    => /\ Contains(query, returned.val.args.text.s)
       /\ returned.val.args.from_lang.s = lower(returned.val.args.from_lang.s)
       /\ returned.val.args.to_lang.s = lower(returned.val.args.to_lang.s)
       /\ query = "Translate \"How are you?\" from English to German"
            => returned.val.args = [text |-> PyStr("How are you?"),
                                    from_lang |-> PyStr("english"),
                                    to_lang |-> PyStr("german")]

\* the texts CITY of s with "in CITY" in s: alphabetic words, one space
\* between two of them, with the end of s, "?" or "," right after the last
CitiesIn(s) ==
    {SubSeq(s, p, j - 1) :
        <<p, j>> \in {<<p, j>> \in (1..Len(s)) \X (1..(Len(s) + 1)) :
                         /\ p > 3 /\ p < j
                         /\ LitAt(s, p - 3, "in ")
                         /\ \A k \in p..(j - 1) :
                               \/ Ch(s, k) \in AlphaSet
                               \/ Ch(s, k) = " " /\ k > p /\ k < j - 1
                                    /\ Ch(s, k + 1) \in AlphaSet
                         /\ (j > Len(s) \/ Ch(s, j) \in {"?", ","})}}

\* C24: for a weather query with "in CITY", CITY one or more alphabetic words
\* with the end of the query, "?" or "," right after them, the city of the
\* plan is the whole CITY with each word capitalized: temperature in New York
\* gives New York
C24_WholeCity ==
    (pc = "done" /\ entry = "plan" /\ returned.ok /\ returned.val.tool = WEATHER)
    => /\ \A city \in CitiesIn(normalize_text(query)) :
              CitiesIn(normalize_text(query)) = {city}
                => returned.val.args.city.s = title(city)
       /\ query = "temperature in New York"
            => returned.val.args.city.s = "New York"

(***************************************************************************)
(* The properties of the planner's loop, stated on SpecPlanner.            *)
(***************************************************************************)
\* C25: a stage that raises is taken to have declined: plan goes on with the
\* next stage in order and returns a plan, that of the first stage that
\* accepts, those that raise passed over, or the fallback; no exception of a
\* stage leaves plan
C25_RaisingStageDeclines ==
    LET Outcome(k) == CallStage(patterns, planners[k], normalize_text(query),
                                strip(query))
        Accepts(k) == Let(Outcome(k), LAMBDA r : r.ok /\ ~IsNone(r.val))
        Accepting == {k \in 1..Len(planners) : Accepts(k)}
    IN  entry = "plan" =>
            /\ consulted = SubSeq(planners, 1, Len(consulted))
            /\ \A k \in 1..(Len(consulted) - 1) : ~Accepts(k)
            /\ pc = "done" =>
                  /\ returned.ok
                  /\ returned.val.tool \in ToolName
                  /\ returned = IF Accepting = {}
                                THEN FallbackPlan(strip(query))
                                ELSE Outcome(Least(Accepting))

\* plan has returned the plan of the knowledge-base stage after the
\* calculation stage, which accepts the query with every pattern in place,
\* raised
C25_Witness ==
    /\ entry = "plan"
    /\ pc = "done"
    /\ query = "What is 2 + 2?"
    /\ ~CallStage(patterns, "_plan_calculation", normalize_text(query),
                  strip(query)).ok
    /\ consulted = planners
    /\ returned.ok
    /\ returned.val.tool = KNOWLEDGE_BASE

(***************************************************************************)
(* The properties of the dispatcher's weather calculation, stated on the   *)
(* states of Spec.                                                         *)
(***************************************************************************)
\* process_query has executed a CALCULATOR plan whose expression holds a
\* weather keyword and is not of the idiom add N ... average ... paris and
\* london
WeatherKeywordNoIdiom ==
    /\ entry \in {"process_query", "answer"}
    /\ pc \in {"respond", "done"}
    /\ calls = <<"plan", CALCULATOR>>
    /\ \E keyword \in {"temperature", "weather", "paris", "london", "average"} :
           Contains(lower(planned.val.args.expr.s), keyword)
    /\ ~IsAddToAverage(planned.val.args.expr.s)

\* C26: for a CALCULATOR plan whose expression holds a weather keyword and is
\* not of the idiom, the outcome of the dispatcher, a value or a failure, is
\* exactly the outcome of the ordinary evaluation of the expression by the
\* calculator: the same value, or the same failure
C26_SameOutcome ==
    WeatherKeywordNoIdiom =>
        Let(Reraise(run(CALCULATOR, planned.val.args), "ToolExecutionError",
                    "Tool " \o FormatTool(CALCULATOR) \o " failed: "),
            LAMBDA ordinary :
                IF ordinary.ok
                THEN response.val.success /\ response.val.result = ordinary.val
                ELSE ~response.val.success
                       /\ response.val.error = PyStr(ordinary.msg))

\* C26, amended: the dispatcher returns the value the calculator returns for
\* the expression, and fails exactly when the calculator fails, with a
\* ToolExecutionError that holds the calculator's message after the words
\* Weather calculation failed
C26_SameValueOrWrappedFailure ==
    WeatherKeywordNoIdiom =>
        Let(run(CALCULATOR, planned.val.args), LAMBDA ordinary :
            IF ordinary.ok
            THEN response.val.success /\ response.val.result = ordinary.val
            ELSE /\ ~response.val.success
                 /\ response.val.result
                      = "I encountered an error while processing your request."
                 /\ response.val.error
                      = PyStr("Tool " \o FormatTool(CALCULATOR)
                                \o " failed: Weather calculation failed: "
                                \o ordinary.msg))

\* the dispatcher has returned the calculator's value for an expression with
\* the keyword average, and, in another state, the calculator's failure for
\* an expression with paris and london that is not of the idiom
C26_Witness ==
    /\ WeatherKeywordNoIdiom
    /\ \/ /\ query = "add 2.5 to the average of 10 and 20"
          /\ response.val.result = "17.5"
       \/ /\ query = "Add 5 to the temperature in Paris and London"
          /\ ~response.val.success

ConvertDeclinedByCalculation ==
    /\ startswith(normalize_text(query), "convert")
    /\ _plan_calculation(normalize_text(query), strip(query)) = Return(None)

\* the query names none of the units of the conversion stage's list as a
\* word of its own
NamesNoUnit ==
    \A unit \in ConversionUnitTokens :
        ~Contains(" " \o normalize_text(query) \o " ", " " \o unit \o " ")

\* C29: plan, called with a query that begins with convert once normalized
\* and that the calculation stage declines, returns the plan of
\* UNIT_CONVERTER with the stripped query, made by the second stage, whether
\* the query names a unit or not
C29_ConvertGoesToConverter ==
    (entry = "plan" /\ pc = "done" /\ ConvertDeclinedByCalculation)
    => /\ returned = ToolPlan(UNIT_CONVERTER, [query |-> PyStr(strip(query))])
       /\ consulted = <<"_plan_calculation", "_plan_unit_conversion">>

\* plan has returned the converter's plan for a query that begins with
\* convert, names no unit and does not match the conversion pattern
C29_Witness ==
    /\ entry = "plan"
    /\ pc = "done"
    /\ ConvertDeclinedByCalculation
    /\ NamesNoUnit
    /\ ~pattern_conversion(normalize_text(query)).matched
    /\ returned.ok
    /\ returned.val.tool = UNIT_CONVERTER

(***************************************************************************)
(* The two readings of "add N to the average temperature in paris and      *)
(* london": the special case of the dispatcher and the preprocessing of    *)
(* the calculator, stated on the states of Spec.                           *)
(***************************************************************************)
IdiomTail == " to the average temperature in paris and london"

\* whether the expression is "add N to the average temperature in paris and
\* london" for a number N, integer or decimal, in any case of letters
IsTheIdiom(expr) ==
    /\ startswith(lower(expr), "add ")
    /\ NumEnd(lower(expr), 5) # 0
    /\ SubSeq(lower(expr), NumEnd(lower(expr), 5), Len(expr)) = IdiomTail

\* C30: for the expression "add N to the average temperature in paris and
\* london" planned to the calculator, the result of the dispatcher's special
\* case is the string that the calculator returns for the same text, for
\* every number N, integer or decimal
C30_SameAsCalculator ==
    (/\ entry \in {"process_query", "answer"}
     /\ pc \in {"respond", "done"}
     /\ calls = <<"plan", CALCULATOR>>
     /\ IsTheIdiom(planned.val.args.expr.s))
    => /\ response.val.success
       /\ run(CALCULATOR, planned.val.args) = Return(response.val.result)

====
